---- MODULE Spec2Model ----
(***************************************************************************)
(* A model of the traefik-plugin-ip2location repository: the Format-B      *)
(* (IP2Location BIN) reader of lib.go, the Format-A (MMDB) reader of        *)
(* mmdb.go and the client-IP detection of the HTTP middleware.              *)
(*                                                                         *)
(* Numbers keep the widths of the Go code.  A uint32 is a pair <<hi, lo>>   *)
(* of 16-bit limbs, a big.Int holding an address is a sequence of eight    *)
(* 16-bit groups (most significant first), a uint8 is a number modulo 256. *)
(* Files are sequences of bytes; every read of the code is a read of those *)
(* bytes at the offset the code computes.                                  *)
(***************************************************************************)
EXTENDS Integers, Sequences, FiniteSets, TLC

VARIABLES
    file,       \* Format B: the bytes of the BIN file on disk
    globals,    \* Format B: the package-level big.Int range values
    db,         \* Format B: the *DB handle OpenDB returned (or NoDB/outcome)
    q,          \* Format B: the activation of DB.query in progress / its result
    fx,         \* the description the file on disk was written from (Format B:
                \* the tables; Format A, sequential: the tree of the data record)
    hcfg,       \* middleware: the plugin fields New filled in, or New's error
    hreq,       \* middleware: the request being served
    hres,       \* middleware: what getIP returned for hreq, and for a whole
                \* ServeHTTP the headers it set and its call of the next handler
    mfile,      \* Format A: the MMDB file on disk
    reader,     \* Format A: the *MMDBReader (or the outcome of OpenMMDB)
    cursor,     \* Format A: the offset of the reader's one os.File
    calls       \* Format A: the activations of LookupIP, one per goroutine

varsB == <<file, globals, db, q, fx>>
varsH == <<hcfg, hreq, hres>>
varsA == <<mfile, reader, cursor, calls>>
vars == <<file, globals, db, q, fx, hcfg, hreq, hres, mfile, reader, cursor, calls>>

(***************************************************************************)
(* Machine arithmetic                                                      *)
(***************************************************************************)
B8 == 256
B16 == 65536

Min(a, b) == IF a < b THEN a ELSE b
Max(a, b) == IF a < b THEN b ELSE a

\* uint32 values as limb pairs
N32(n) == <<n \div B16, n % B16>>
Zero32 == <<0, 0>>
Max32 == <<B16 - 1, B16 - 1>>
Add32(a, b) ==
    LET lo == a[2] + b[2]
        hi == a[1] + b[1] + (lo \div B16)
    IN  <<hi % B16, lo % B16>>
Sub32(a, b) ==
    LET borrow == IF a[2] < b[2] THEN 1 ELSE 0
        lo == a[2] - b[2] + borrow * B16
        hi == a[1] - b[1] - borrow
    IN  <<(hi + B16) % B16, lo>>
\* a * s for a small factor s (a column size, at most 255)
Mul32(a, s) ==
    LET lo == a[2] * s
        hi == a[1] * s + (lo \div B16)
    IN  <<hi % B16, lo % B16>>
Shr32(a) == <<a[1] \div 2, (a[1] % 2) * (B16 \div 2) + (a[2] \div 2)>>
Lt32(a, b) == a[1] < b[1] \/ (a[1] = b[1] /\ a[2] < b[2])
Le32(a, b) == a = b \/ Lt32(a, b)

\* big.Int values of at most 128 bits as eight 16-bit groups
BigZero == <<0, 0, 0, 0, 0, 0, 0, 0>>
BigOf32(u) == <<0, 0, 0, 0, 0, 0, u[1], u[2]>>
RECURSIVE BigCmpFrom(_, _, _)
BigCmpFrom(a, b, i) ==
    IF i > 8 THEN 0
    ELSE IF a[i] < b[i] THEN -1
    ELSE IF a[i] > b[i] THEN 1
    ELSE BigCmpFrom(a, b, i + 1)
BigCmp(a, b) == BigCmpFrom(a, b, 1)
RECURSIVE BigDecFrom(_, _)
BigDecFrom(a, i) ==
    IF i = 0 THEN a
    ELSE IF a[i] > 0 THEN [a EXCEPT ![i] = a[i] - 1]
    ELSE BigDecFrom([a EXCEPT ![i] = B16 - 1], i - 1)
\* a - 1 (a > 0)
BigDec(a) == BigDecFrom(a, 8)
\* a - b for b <= a, group by group with borrow
RECURSIVE BigSubFrom(_, _, _, _)
BigSubFrom(a, b, i, borrow) ==
    IF i = 0 THEN a
    ELSE LET d == a[i] - b[i] - borrow
         IN  BigSubFrom([a EXCEPT ![i] = (d + B16) % B16], b, i - 1,
                        IF d < 0 THEN 1 ELSE 0)
BigSub(a, b) == BigSubFrom(a, b, 8, 0)
\* a >> (16 * n)
BigRshGroups(a, n) == [i \in 1..8 |-> IF i - n >= 1 THEN a[i - n] ELSE 0]
\* a & 0xFFFFFFFF
BigLow32(a) == [i \in 1..8 |-> IF i >= 7 THEN a[i] ELSE 0]
\* the low 128 bits of ^a
BigNot(a) == [i \in 1..8 |-> B16 - 1 - a[i]]

(***************************************************************************)
(* Bytes                                                                   *)
(***************************************************************************)
LE32(u) == <<u[2] % B8, u[2] \div B8, u[1] % B8, u[1] \div B8>>
LE32N(n) == LE32(N32(n))
\* binary.LittleEndian.Uint32
U32OfLE(b) == <<b[4] * B8 + b[3], b[2] * B8 + b[1]>>
\* sixteen little-endian bytes of a 128-bit value
LE128(g) == [i \in 1..16 |->
                LET grp == 8 - ((i - 1) \div 2)
                IN  IF i % 2 = 1 THEN g[grp] % B8 ELSE g[grp] \div B8]
\* readuint128: reverse to big endian, then SetBytes
BigOfLE(b) == [i \in 1..8 |-> b[16 - 2 * (i - 1)] * B8 + b[15 - 2 * (i - 1)]]

RECURSIVE Concat(_)
Concat(ss) == IF ss = <<>> THEN <<>> ELSE Head(ss) \o Concat(Tail(ss))
Repeat(x, n) == [i \in 1..n |-> x]

(***************************************************************************)
(* Format B: the static per-field position tables, indexed by database     *)
(* type.  Go indexes them from 0, so cell dbt is element dbt + 1 here.     *)
(***************************************************************************)
TableLen == 25

country_position == <<0, 2, 2, 2, 2, 2, 2, 2, 2, 2, 2, 2, 2, 2, 2, 2, 2, 2, 2, 2, 2, 2, 2, 2, 2>>
region_position == <<0, 0, 0, 3, 3, 3, 3, 3, 3, 3, 3, 3, 3, 3, 3, 3, 3, 3, 3, 3, 3, 3, 3, 3, 3>>
city_position == <<0, 0, 0, 4, 4, 4, 4, 4, 4, 4, 4, 4, 4, 4, 4, 4, 4, 4, 4, 4, 4, 4, 4, 4, 4>>
isp_position == <<0, 0, 3, 0, 5, 0, 7, 5, 7, 0, 8, 0, 9, 0, 9, 0, 9, 0, 9, 7, 9, 0, 9, 7, 9>>
latitude_position == <<0, 0, 0, 0, 0, 5, 5, 0, 5, 5, 5, 5, 5, 5, 5, 5, 5, 5, 5, 5, 5, 5, 5, 5, 5>>
longitude_position == <<0, 0, 0, 0, 0, 6, 6, 0, 6, 6, 6, 6, 6, 6, 6, 6, 6, 6, 6, 6, 6, 6, 6, 6, 6>>
domain_position == <<0, 0, 0, 0, 0, 0, 0, 6, 8, 0, 9, 0, 10, 0, 10, 0, 10, 0, 10, 8, 10, 0, 10, 8, 10>>
zipcode_position == <<0, 0, 0, 0, 0, 0, 0, 0, 0, 7, 7, 7, 7, 0, 7, 7, 7, 0, 7, 0, 7, 7, 7, 0, 7>>
timezone_position == <<0, 0, 0, 0, 0, 0, 0, 0, 0, 0, 0, 8, 8, 7, 8, 8, 8, 7, 8, 0, 8, 8, 8, 0, 8>>
netspeed_position == <<0, 0, 0, 0, 0, 0, 0, 0, 0, 0, 0, 0, 0, 8, 11, 0, 11, 8, 11, 0, 11, 0, 11, 0, 11>>
iddcode_position == <<0, 0, 0, 0, 0, 0, 0, 0, 0, 0, 0, 0, 0, 0, 0, 9, 12, 0, 12, 0, 12, 9, 12, 0, 12>>
areacode_position == <<0, 0, 0, 0, 0, 0, 0, 0, 0, 0, 0, 0, 0, 0, 0, 10, 13, 0, 13, 0, 13, 10, 13, 0, 13>>
weatherstationcode_position == <<0, 0, 0, 0, 0, 0, 0, 0, 0, 0, 0, 0, 0, 0, 0, 0, 0, 9, 14, 0, 14, 0, 14, 0, 14>>
weatherstationname_position == <<0, 0, 0, 0, 0, 0, 0, 0, 0, 0, 0, 0, 0, 0, 0, 0, 0, 10, 15, 0, 15, 0, 15, 0, 15>>
mcc_position == <<0, 0, 0, 0, 0, 0, 0, 0, 0, 0, 0, 0, 0, 0, 0, 0, 0, 0, 0, 9, 16, 0, 16, 9, 16>>
mnc_position == <<0, 0, 0, 0, 0, 0, 0, 0, 0, 0, 0, 0, 0, 0, 0, 0, 0, 0, 0, 10, 17, 0, 17, 10, 17>>
mobilebrand_position == <<0, 0, 0, 0, 0, 0, 0, 0, 0, 0, 0, 0, 0, 0, 0, 0, 0, 0, 0, 11, 18, 0, 18, 11, 18>>
elevation_position == <<0, 0, 0, 0, 0, 0, 0, 0, 0, 0, 0, 0, 0, 0, 0, 0, 0, 0, 0, 0, 0, 11, 19, 0, 19>>
usagetype_position == <<0, 0, 0, 0, 0, 0, 0, 0, 0, 0, 0, 0, 0, 0, 0, 0, 0, 0, 0, 0, 0, 0, 0, 12, 20>>

\* the position tables by column name
Position ==
    [country |-> country_position, region |-> region_position,
     city |-> city_position, isp |-> isp_position,
     latitude |-> latitude_position, longitude |-> longitude_position,
     domain |-> domain_position, zipcode |-> zipcode_position,
     timezone |-> timezone_position, netspeed |-> netspeed_position,
     iddcode |-> iddcode_position, areacode |-> areacode_position,
     weatherstationcode |-> weatherstationcode_position,
     weatherstationname |-> weatherstationname_position,
     mcc |-> mcc_position, mnc |-> mnc_position,
     mobilebrand |-> mobilebrand_position,
     elevation |-> elevation_position, usagetype |-> usagetype_position]
Columns == DOMAIN Position

\* the OpenDB blocks in source order: the first table indexed is country_position
ColumnOrder ==
    <<"country", "region", "city", "isp", "domain", "zipcode", "latitude",
      "longitude", "timezone", "netspeed", "iddcode", "areacode",
      "weatherstationcode", "weatherstationname", "mcc", "mnc", "mobilebrand",
      "elevation", "usagetype">>

\* table[dbt] of Go: the cell, or a run-time panic when dbt is out of range
InRange(dbt) == dbt < TableLen
Cell(col, dbt) == Position[col][dbt + 1]

(***************************************************************************)
(* Format B: files.  ReadAt is the only way the reader touches the file.   *)
(***************************************************************************)
ReadResult(ok, data) == [ok |-> ok, data |-> data]
ReadFail == ReadResult(FALSE, <<>>)

\* ReadAt on a file that Close does not close
ReadAtOpen(f, closed, off, n) ==
    IF off < 0 THEN ReadFail
    ELSE IF n = 0 THEN ReadResult(TRUE, <<>>)
    ELSE IF off + n > Len(f) THEN ReadFail
    ELSE ReadResult(TRUE, SubSeq(f, off + 1, off + n))
\* os.File.ReadAt(buf of n bytes, off): an error for a negative offset, a closed
\* file, or fewer than n bytes left
ReadAt(f, closed, off, n) ==
    IF off < 0 THEN ReadFail
    ELSE IF n = 0 THEN ReadResult(TRUE, <<>>)
    ELSE IF closed THEN ReadFail
    ELSE IF off + n > Len(f) THEN ReadFail
    ELSE ReadResult(TRUE, SubSeq(f, off + 1, off + n))

\* ReadAt at int64(pos) + delta for a uint32 pos; the modelled files are shorter
\* than 65535 bytes, so a position with a high limb lies beyond the end
ReadAt32(f, closed, pos, delta, n) ==
    IF pos[1] > 0
    THEN (IF n = 0 THEN ReadResult(TRUE, <<>>) ELSE ReadFail)
    ELSE ReadAt(f, closed, pos[2] + delta, n)

\* DB.readuint8(pos): the byte at 1-based position pos
readuint8(f, closed, pos) ==
    LET r == ReadAt(f, closed, pos - 1, 1)
    IN  IF r.ok THEN [ok |-> TRUE, val |-> r.data[1]] ELSE [ok |-> FALSE, val |-> 0]

\* DB.readuint32(pos): little-endian uint32 at 1-based position pos
readuint32(f, closed, pos) ==
    LET r == ReadAt32(f, closed, pos, -1, 4)
    IN  IF r.ok THEN [ok |-> TRUE, val |-> U32OfLE(r.data)]
        ELSE [ok |-> FALSE, val |-> Zero32]

\* DB.readuint128(pos)
readuint128(f, closed, pos) ==
    LET r == ReadAt32(f, closed, pos, -1, 16)
    IN  IF r.ok THEN [ok |-> TRUE, val |-> BigOfLE(r.data)]
        ELSE [ok |-> FALSE, val |-> BigZero]

\* DB.readstr(pos): one length byte at 0-based pos, then that many bytes
readstr(f, closed, pos) ==
    LET l == ReadAt32(f, closed, pos, 0, 1)
    IN  IF ~l.ok THEN [ok |-> FALSE, val |-> <<>>]
        ELSE LET s == ReadAt32(f, closed, pos, 1, l.data[1])
             IN  IF s.ok THEN [ok |-> TRUE, val |-> s.data]
                 ELSE [ok |-> FALSE, val |-> <<>>]

\* DB.readuint32_row / readfloat_row: row[pos : pos+4]; a slice bound out of
\* range panics
RowHas(row, pos) == pos + 4 <= Len(row)
readuint32_row(row, pos) == U32OfLE(SubSeq(row, pos + 1, pos + 4))
\* a float32 is kept as its bit pattern (math.Float32frombits is injective on it)
readfloat_row(row, pos) == U32OfLE(SubSeq(row, pos + 1, pos + 4))

(***************************************************************************)
(* Format B: the package-level values and the IP classifier DB.checkip     *)
(***************************************************************************)
FFFF == B16 - 1
max_ipv4_range == <<0, 0, 0, 0, 0, 0, FFFF, FFFF>>
from_v4mapped == <<0, 0, 0, 0, 0, FFFF, 0, 0>>
to_v4mapped == <<0, 0, 0, 0, 0, FFFF, FFFF, FFFF>>
last_32bits == <<0, 0, 0, 0, 0, 0, FFFF, FFFF>>
Prefix6to4 == 8194
PrefixTeredo == 8193

\* var x = big.NewInt(0): the value of the five variables OpenDB fills in
GlobalsUnset ==
    [max_ipv6_range |-> BigZero, from_6to4 |-> BigZero, to_6to4 |-> BigZero,
     from_teredo |-> BigZero, to_teredo |-> BigZero]
\* the five SetString calls at the head of OpenDB
GlobalsSet ==
    [max_ipv6_range |-> <<FFFF, FFFF, FFFF, FFFF, FFFF, FFFF, FFFF, FFFF>>,
     from_6to4 |-> <<Prefix6to4, 0, 0, 0, 0, 0, 0, 0>>,
     to_6to4 |-> <<Prefix6to4, FFFF, FFFF, FFFF, FFFF, FFFF, FFFF, FFFF>>,
     from_teredo |-> <<PrefixTeredo, 0, 0, 0, 0, 0, 0, 0>>,
     to_teredo |-> <<PrefixTeredo, 0, FFFF, FFFF, FFFF, FFFF, FFFF, FFFF>>]

\* An address literal handed to the lookup: a dotted IPv4 literal of value v
\* (a uint32), an IPv6 literal of groups g, or a string that is neither.
V4Lit(v) == [kind |-> "v4", g |-> BigOf32(v)]
V6Lit(g) == [kind |-> "v6", g |-> g]
BadLit == [kind |-> "bad", g |-> BigZero]
NilIP == <<>>
\* a parser that takes any string for an address
ParseIPAnything(lit) ==
    IF lit.kind = "v4" THEN <<0, 0, 0, 0, 0, FFFF, lit.g[7], lit.g[8]>> ELSE lit.g
\* net.ParseIP: the 16-byte form; an IPv4 literal becomes ::ffff:a.b.c.d
ParseIP(lit) ==
    IF lit.kind = "v4" THEN <<0, 0, 0, 0, 0, FFFF, lit.g[7], lit.g[8]>>
    ELSE IF lit.kind = "v6" THEN lit.g
    ELSE NilIP
\* net.IP.To4: the 4-byte form of a 16-byte address with the ::ffff:0:0/96 prefix
To4(ip) ==
    IF ip # NilIP /\ (\A i \in 1..5 : ip[i] = 0) /\ ip[6] = FFFF
    THEN <<ip[7], ip[8]>>
    ELSE NilIP

InBig(x, lo, hi) == BigCmp(x, lo) >= 0 /\ BigCmp(x, hi) <= 0

\* the 6to4 branch with the shift of the Teredo embedding (a plausible slip)
Remap6to4Low(v6) == BigLow32(v6)
\* ipnum.Rsh(ipnum, 80); ipnum.And(ipnum, last_32bits)
Remap6to4(v6) == BigLow32(BigRshGroups(v6, 5))
\* ipnum.Not(ipnum); ipnum.And(ipnum, last_32bits).  big.Int.Not is -x-1, and
\* And with a positive mask takes the two's complement bits: the low 32 bits
\* complemented
RemapTeredo(v6) == BigLow32(BigNot(v6))

\* the type and number part of checkip
Classify(g, lit) ==
    LET ipaddress == ParseIP(lit)
        v4 == To4(ipaddress)
    IN  IF ipaddress = NilIP THEN [iptype |-> 0, ipnum |-> BigZero]
        ELSE IF v4 # NilIP THEN [iptype |-> 4, ipnum |-> BigOf32(v4)]
        ELSE IF InBig(ipaddress, from_v4mapped, to_v4mapped)
             THEN [iptype |-> 4, ipnum |-> BigSub(ipaddress, from_v4mapped)]
        ELSE IF InBig(ipaddress, g.from_6to4, g.to_6to4)
             THEN [iptype |-> 4, ipnum |-> Remap6to4(ipaddress)]
        ELSE IF InBig(ipaddress, g.from_teredo, g.to_teredo)
             THEN [iptype |-> 4, ipnum |-> RemapTeredo(ipaddress)]
        ELSE [iptype |-> 6, ipnum |-> ipaddress]

\* the index offset taken to be the base address, whatever the key
IndexOfBase(top, base) == base
\* uint32((ipnum >> shift) << 3 + base): top is the 16-bit group the shift keeps
IndexOf(top, base) == Add32(N32(top * 8), base)

\* DB.checkip(ip): (iptype, ipnum, ipindex)
checkip(d, g, lit) ==
    LET c == Classify(g, lit)
        ipindex ==
            IF c.iptype = 4 /\ d.meta.ipv4indexbaseaddr # Zero32
            THEN IndexOf(c.ipnum[7], d.meta.ipv4indexbaseaddr)
            ELSE IF c.iptype = 6 /\ d.meta.ipv6indexbaseaddr # Zero32
            THEN IndexOf(c.ipnum[1], d.meta.ipv6indexbaseaddr)
            ELSE Zero32
    IN  [iptype |-> c.iptype, ipnum |-> c.ipnum, ipindex |-> ipindex]

(***************************************************************************)
(* Format B: OpenDB                                                        *)
(***************************************************************************)
NoDB == [state |-> "none"]

\* uint8 arithmetic of the two column-size lines
Shl2U8(c) == (c * 4) % B8
ipv4columnsize(c) == Shl2U8(c)
ipv6columnsize(c) == (16 + Shl2U8((c + B8 - 1) % B8)) % B8

\* uint32(table[dbt]-2) << 2, the subtraction in uint8
PositionOffset(cell) == ((cell + B8 - 2) % B8) * 4

\* a column is enabled iff its cell is zero (the test inverted)
EnabledIfZero(col, dbt) == Cell(col, dbt) = 0
\* the test "if x_position[dbt] != 0" guarding each block of OpenDB
Enabled(col, dbt) == Cell(col, dbt) # 0

\* the header reads of OpenDB, in order; each is [ok, val]
HeaderReads(f) ==
    [databasetype |-> readuint8(f, FALSE, 1),
     databasecolumn |-> readuint8(f, FALSE, 2),
     databaseyear |-> readuint8(f, FALSE, 3),
     databasemonth |-> readuint8(f, FALSE, 4),
     databaseday |-> readuint8(f, FALSE, 5),
     ipv4databasecount |-> readuint32(f, FALSE, N32(6)),
     ipv4databaseaddr |-> readuint32(f, FALSE, N32(10)),
     ipv6databasecount |-> readuint32(f, FALSE, N32(14)),
     ipv6databaseaddr |-> readuint32(f, FALSE, N32(18)),
     ipv4indexbaseaddr |-> readuint32(f, FALSE, N32(22)),
     ipv6indexbaseaddr |-> readuint32(f, FALSE, N32(26))]

\* the value OpenDB returns for the file f: a handle, an error (the file is
\* closed again by fatal), or a panic of the table indexing
OpenResult(f) ==
    LET h == HeaderReads(f)
    IN  IF \E k \in DOMAIN h : ~h[k].ok THEN [state |-> "error"]
        ELSE LET dbt == h.databasetype.val
                 c == h.databasecolumn.val
             IN  IF ~InRange(dbt) THEN [state |-> "panic"]
                 ELSE [state |-> "open",
                       closed |-> FALSE,
                       metaok |-> TRUE,
                       meta |-> [databasetype |-> dbt,
                                 databasecolumn |-> c,
                                 ipv4databasecount |-> h.ipv4databasecount.val,
                                 ipv4databaseaddr |-> h.ipv4databaseaddr.val,
                                 ipv6databasecount |-> h.ipv6databasecount.val,
                                 ipv6databaseaddr |-> h.ipv6databaseaddr.val,
                                 ipv4indexbaseaddr |-> h.ipv4indexbaseaddr.val,
                                 ipv6indexbaseaddr |-> h.ipv6indexbaseaddr.val,
                                 ipv4columnsize |-> ipv4columnsize(c),
                                 ipv6columnsize |-> ipv6columnsize(c)],
                       enabled |-> [col \in Columns |-> Enabled(col, dbt)],
                       offset |-> [col \in Columns |->
                                      IF Enabled(col, dbt)
                                      THEN PositionOffset(Cell(col, dbt))
                                      ELSE 0]]

(***************************************************************************)
(* Format B: DB.query                                                      *)
(***************************************************************************)
\* x := IP2Locationrecord{}; a float32 is its bit pattern
EmptyRecord ==
    [Country_short |-> <<>>, Country_long |-> <<>>, Region |-> <<>>,
     City |-> <<>>, Isp |-> <<>>, Latitude |-> Zero32, Longitude |-> Zero32,
     Domain |-> <<>>, Zipcode |-> <<>>, Timezone |-> <<>>, Netspeed |-> <<>>,
     Iddcode |-> <<>>, Areacode |-> <<>>, Weatherstationcode |-> <<>>,
     Weatherstationname |-> <<>>, Mcc |-> <<>>, Mnc |-> <<>>,
     Mobilebrand |-> <<>>, Elevation |-> 0, Usagetype |-> <<>>]

\* the field blocks of query in source order: the record field, the column
\* whose enabled flag and offset it uses, and how the value is read
QF(f, col, kind) == [f |-> f, col |-> col, kind |-> kind]
QueryFields ==
    <<QF("Country_short", "country", "str"),
      QF("Country_long", "country", "str3"),
      QF("Region", "region", "str"),
      QF("City", "city", "str"),
      QF("Isp", "isp", "str"),
      QF("Latitude", "latitude", "float"),
      QF("Longitude", "longitude", "float"),
      QF("Domain", "domain", "str"),
      QF("Zipcode", "zipcode", "str"),
      QF("Timezone", "timezone", "str"),
      QF("Netspeed", "netspeed", "str"),
      QF("Iddcode", "iddcode", "str"),
      QF("Areacode", "areacode", "str"),
      QF("Weatherstationcode", "weatherstationcode", "str"),
      QF("Weatherstationname", "weatherstationname", "str"),
      QF("Mcc", "mcc", "str"),
      QF("Mnc", "mnc", "str"),
      QF("Mobilebrand", "mobilebrand", "str"),
      QF("Elevation", "elevation", "elev"),
      QF("Usagetype", "usagetype", "str")>>
\* const all: every mode bit
all == {QueryFields[i].f : i \in 1..Len(QueryFields)}

\* strconv.ParseFloat(res, 32) with the error dropped, on the strings the
\* modelled files hold: a string of decimal digits is its value, any other
\* string (the empty one too) fails to parse and leaves 0
IsDigit(b) == 48 <= b /\ b <= 57
RECURSIVE DigitsValue(_, _)
DigitsValue(str, acc) ==
    IF str = <<>> THEN acc ELSE DigitsValue(Tail(str), acc * 10 + (Head(str) - 48))
ParseFloat(str) ==
    IF str # <<>> /\ (\A i \in 1..Len(str) : IsDigit(str[i]))
    THEN DigitsValue(str, 0)
    ELSE 0

\* the field blocks from block i on, for the row buffer `row`
RECURSIVE DecodeFrom(_, _, _, _, _, _)
DecodeFrom(d, f, mode, row, i, x) ==
    IF i > Len(QueryFields) THEN [status |-> "ok", x |-> x, failed |-> "none"]
    ELSE
      LET qf == QueryFields[i]
      IN  IF ~(qf.f \in mode /\ d.enabled[qf.col])
          THEN DecodeFrom(d, f, mode, row, i + 1, x)
          ELSE IF ~RowHas(row, d.offset[qf.col])
          THEN [status |-> "panic", x |-> x, failed |-> qf.f]
          ELSE IF qf.kind = "float"
          THEN DecodeFrom(d, f, mode, row, i + 1,
                          [x EXCEPT ![qf.f] = readfloat_row(row, d.offset[qf.col])])
          ELSE
            LET ptr == readuint32_row(row, d.offset[qf.col])
                pos == IF qf.kind = "str3" THEN Add32(ptr, N32(3)) ELSE ptr
                str == readstr(f, d.closed, pos)
            IN  IF ~str.ok
                THEN [status |-> "err", x |-> x, failed |-> qf.f]
                ELSE DecodeFrom(d, f, mode, row, i + 1,
                                [x EXCEPT ![qf.f] =
                                    IF qf.kind = "elev" THEN ParseFloat(str.val)
                                    ELSE str.val])

\* the activation record of query
IdleQuery ==
    [pc |-> "idle", lit |-> BadLit, iptype |-> 0, ipnum |-> BigZero,
     ipno |-> BigZero,
     ipindex |-> Zero32, low |-> Zero32, high |-> Zero32, mid |-> Zero32,
     status |-> "none", err |-> "none", x |-> EmptyRecord,
     failed |-> "none", matched |-> FALSE, exhausted |-> FALSE]

Return(qq, status, err, x) ==
    [qq EXCEPT !.pc = "done", !.status = status, !.err = err, !.x = x]

\* the key left as it is (the decrement at the top of the range dropped)
TopKeyNever(ipno, maxip) == ipno
\* if ipno.Cmp(maxip) >= 0 { ipno.Sub(ipno, 1) }
TopKey(ipno, maxip) == IF BigCmp(ipno, maxip) >= 0 THEN BigDec(ipno) ELSE ipno

\* query from its entry to the head of the search loop
QueryEntry(d, f, g, lit, mode) ==
    LET q0 == [IdleQuery EXCEPT !.lit = lit]
    IN  IF ~d.metaok THEN Return(q0, "err", "missing_file", EmptyRecord)
        ELSE
          LET c == checkip(d, g, lit)
          IN  IF c.iptype = 0
              THEN Return(q0, "err", "invalid_address", EmptyRecord)
              ELSE
                LET high0 == IF c.iptype = 4 THEN d.meta.ipv4databasecount
                             ELSE d.meta.ipv6databasecount
                    maxip == IF c.iptype = 4 THEN max_ipv4_range
                             ELSE g.max_ipv6_range
                    rlow == readuint32(f, d.closed, c.ipindex)
                    rhigh == readuint32(f, d.closed, Add32(c.ipindex, N32(4)))
                    q1 == [q0 EXCEPT !.iptype = c.iptype, !.ipindex = c.ipindex,
                                     !.ipnum = c.ipnum,
                                     !.ipno = TopKey(c.ipnum, maxip)]
                IN  IF c.ipindex = Zero32
                    THEN [q1 EXCEPT !.pc = "loop", !.low = Zero32, !.high = high0]
                    ELSE IF ~rlow.ok \/ ~rhigh.ok
                    THEN Return(q1, "err", "io", EmptyRecord)
                    ELSE [q1 EXCEPT !.pc = "loop", !.low = rlow.val,
                                    !.high = rhigh.val]

\* the narrowing step with the two halves exchanged
NarrowSwapped(qq, mid, below) ==
    IF below THEN [qq EXCEPT !.low = Add32(mid, N32(1))]
    ELSE [qq EXCEPT !.high = Sub32(mid, N32(1))]
\* if ipno < ipfrom { high = mid - 1 } else { low = mid + 1 }
Narrow(qq, mid, below) ==
    IF below THEN [qq EXCEPT !.high = Sub32(mid, N32(1))]
    ELSE [qq EXCEPT !.low = Add32(mid, N32(1))]

\* the return after the loop: return x, nil
Exhausted(qq) ==
    [Return(qq, "ok", "none", EmptyRecord) EXCEPT !.exhausted = TRUE]

\* one pass of "for low <= high": the test, the two boundary reads, and either
\* the decoding of the matching row or the narrowing.  bigalloc tells whether
\* make([]byte, colsize-firstcol) of a wrapped length is survived.
QueryPass(d, f, mode, qq, bigalloc) ==
    IF ~Le32(qq.low, qq.high) THEN Exhausted(qq)
    ELSE
      LET colsize == IF qq.iptype = 4 THEN d.meta.ipv4columnsize
                     ELSE d.meta.ipv6columnsize
          baseaddr == IF qq.iptype = 4 THEN d.meta.ipv4databaseaddr
                      ELSE d.meta.ipv6databaseaddr
          mid == Shr32(Add32(qq.low, qq.high))
          rowoffset == Add32(baseaddr, Mul32(mid, colsize))
          rowoffset2 == Add32(rowoffset, N32(colsize))
          rfrom == IF qq.iptype = 4
                   THEN readuint32(f, d.closed, rowoffset)
                   ELSE readuint128(f, d.closed, rowoffset)
          rto == IF qq.iptype = 4
                 THEN readuint32(f, d.closed, rowoffset2)
                 ELSE readuint128(f, d.closed, rowoffset2)
          ipfrom == IF qq.iptype = 4 THEN BigOf32(rfrom.val) ELSE rfrom.val
          ipto == IF qq.iptype = 4 THEN BigOf32(rto.val) ELSE rto.val
          firstcol == IF qq.iptype = 6 THEN 16 ELSE 4
          q1 == [qq EXCEPT !.mid = mid]
      IN  IF ~rfrom.ok \/ ~rto.ok THEN Return(q1, "err", "io", EmptyRecord)
          ELSE IF BigCmp(qq.ipno, ipfrom) >= 0 /\ BigCmp(qq.ipno, ipto) < 0
          THEN
            IF colsize < firstcol
            THEN (IF bigalloc THEN Return(q1, "err", "io", EmptyRecord)
                  ELSE Return(q1, "panic", "none", EmptyRecord))
            ELSE
              LET rrow == ReadAt32(f, d.closed,
                                   Add32(rowoffset, N32(firstcol - 1)), 0,
                                   colsize - firstcol)
                  r == DecodeFrom(d, f, mode, rrow.data, 1, EmptyRecord)
              IN  IF ~rrow.ok THEN Return(q1, "err", "io", EmptyRecord)
                  ELSE [Return(q1, r.status,
                               IF r.status = "err" THEN "io" ELSE "none", r.x)
                        EXCEPT !.failed = r.failed, !.matched = TRUE]
          ELSE Narrow(q1, mid, BigCmp(qq.ipno, ipfrom) < 0)

(***************************************************************************)
(* Format B: the files on disk.  A file is written from a description:     *)
(* the header bytes, the IPv4 and IPv6 range tables (each with its         *)
(* terminating row), the optional index tables and a pool of strings that  *)
(* the row columns point into.                                             *)
(***************************************************************************)
HeaderLen == 29

\* string pool entry k: a two-digit string, then a one-letter string 3 bytes on
PoolShort(k) == <<48 + (k \div 10), 48 + (k % 10)>>
PoolLong(k) == <<97 + k>>
PoolEntry(k) == <<2>> \o PoolShort(k) \o <<1>> \o PoolLong(k)
PoolEntryLen == Len(PoolEntry(0))

V4Addr(d) == HeaderLen + 1
V6Addr(d) == V4Addr(d) + Len(d.from4) * (4 * d.ncol)
I4Addr(d) == V6Addr(d) + Len(d.from6) * (16 + 4 * (d.ncol - 1))
I6Addr(d) == I4Addr(d) + 8 * Len(d.idx4)
PoolStart(d) == I6Addr(d) - 1 + 8 * Len(d.idx6)
PoolPtr(d, k) == PoolStart(d) + PoolEntryLen * k

HeaderBytes(d) ==
    <<d.dbtype, d.hdrcol, 24, 1, 1>>
    \o LE32N(Len(d.from4) - 1)
    \o LE32N(V4Addr(d))
    \o LE32N(IF d.from6 = <<>> THEN 0 ELSE Len(d.from6) - 1)
    \o LE32N(IF d.from6 = <<>> THEN 0 ELSE V6Addr(d))
    \o LE32N(IF d.idx4 = <<>> THEN 0 ELSE I4Addr(d))
    \o LE32N(IF d.idx6 = <<>> THEN 0 ELSE I6Addr(d))
Row4Bytes(d, i) ==
    LE32(d.from4[i + 1]) \o Concat(Repeat(LE32N(PoolPtr(d, i)), d.ncol - 1))
Row6Bytes(d, j) ==
    LE128(d.from6[j + 1])
    \o Concat(Repeat(LE32N(PoolPtr(d, Len(d.from4) + j)), d.ncol - 1))
IndexBytes(idx) ==
    Concat([i \in 1..Len(idx) |-> LE32N(idx[i][1]) \o LE32N(idx[i][2])])
BuildFile(d) ==
    IF d.truncated THEN SubSeq(HeaderBytes(d), 1, 12)
    ELSE HeaderBytes(d)
         \o Concat([i \in 1..Len(d.from4) |-> Row4Bytes(d, i - 1)])
         \o Concat([j \in 1..Len(d.from6) |-> Row6Bytes(d, j - 1)])
         \o IndexBytes(d.idx4) \o IndexBytes(d.idx6)
         \o Concat([k \in 1..(Len(d.from4) + Len(d.from6)) |-> PoolEntry(k - 1)])

\* the number of columns a database of type dbt has: its largest cell
RECURSIVE MaxCell(_, _)
MaxCell(dbt, i) ==
    IF i > Len(ColumnOrder) THEN 2
    ELSE Max(Cell(ColumnOrder[i], dbt), MaxCell(dbt, i + 1))
NCol(dbt) == IF InRange(dbt) THEN MaxCell(dbt, 1) ELSE 2

Big1(g1) == <<g1, 0, 0, 0, 0, 0, 0, 0>>
BigN(n) == <<0, 0, 0, 0, 0, 0, 0, n>>
Max128 == <<FFFF, FFFF, FFFF, FFFF, FFFF, FFFF, FFFF, FFFF>>

\* the range tables (ip_from of every row, the terminating row last)
T4Spec == <<N32(0), N32(100), N32(200), N32(300), Max32>>
T4Wide == <<N32(0), <<1, 5>>, <<2, 0>>, Max32>>
T4Gap == <<N32(5), N32(100), Max32>>
T4Short == <<N32(0), N32(100), N32(200)>>
T6Spec == <<BigZero, BigN(100), Big1(1), Big1(9472), Max128>>
T6Short == <<BigZero, BigN(100), Big1(1)>>

Desc(dbtype, from4, from6, idx4, idx6) ==
    [dbtype |-> dbtype, hdrcol |-> NCol(dbtype), ncol |-> NCol(dbtype),
     from4 |-> from4, from6 |-> from6, idx4 |-> idx4, idx6 |-> idx6,
     truncated |-> FALSE]

\* the largest type byte swept with the standard tables
MaxSweepType == 26

Fixtures ==
    {Desc(t, T4Spec, T6Spec, <<>>, <<>>) : t \in 0..MaxSweepType}
    \cup {Desc(255, T4Spec, T6Spec, <<>>, <<>>),
          \* an index whose windows bracket the rows of each 16-bit prefix
          Desc(1, T4Wide, T6Spec, <<<<0, 0>>, <<0, 1>>, <<2, 2>>>>,
               <<<<0, 1>>, <<2, 2>>>>),
          Desc(11, T4Wide, T6Spec, <<<<0, 0>>, <<0, 1>>, <<2, 2>>>>, <<>>),
          \* index windows that are empty or miss the row
          Desc(1, T4Wide, T6Spec, <<<<3, 1>>, <<2, 2>>, <<0, 0>>>>,
               <<<<1, 0>>, <<0, 0>>>>),
          \* tables that do not cover the address space
          Desc(1, T4Gap, T6Short, <<>>, <<>>),
          Desc(3, T4Short, T6Short, <<>>, <<>>),
          \* an IPv4-only database
          Desc(1, T4Spec, <<>>, <<>>, <<>>),
          [Desc(1, T4Spec, <<>>, <<>>, <<>>) EXCEPT !.truncated = TRUE]}

\* the addresses looked up
Literals ==
    {V4Lit(N32(n)) : n \in {0, 3, 99, 100, 199, 299, 300}}
    \cup {V4Lit(<<1, 4>>), V4Lit(<<1, 5>>), V4Lit(<<2, 0>>),
          V4Lit(<<FFFF, FFFF - 1>>), V4Lit(Max32)}
    \cup {V6Lit(BigZero), V6Lit(BigN(99)), V6Lit(BigN(100)), V6Lit(Big1(1)),
          V6Lit(<<1, 0, 0, 0, 0, 0, 0, 7>>), V6Lit(Big1(9472)),
          V6Lit(<<FFFF, FFFF, FFFF, FFFF, FFFF, FFFF, FFFF, FFFF - 1>>),
          V6Lit(Max128),
          \* ::ffff:0.0.0.100, 2002:0000:0064::1, 2001:0000:..:ffff:ff9b
          V6Lit(<<0, 0, 0, 0, 0, FFFF, 0, 100>>),
          V6Lit(<<Prefix6to4, 0, 100, 0, 0, 0, 0, 1>>),
          V6Lit(<<Prefix6to4, FFFF, FFFF, 1, 2, 3, 4, 5>>),
          V6Lit(<<PrefixTeredo, 0, 7, 7, 7, 7, FFFF, FFFF - 100>>),
          V6Lit(<<PrefixTeredo, 0, 0, 0, 0, 0, 0, 0>>),
          \* next to the special ranges, outside them
          V6Lit(<<PrefixTeredo, 1, 0, 0, 0, 0, 0, 100>>),
          V6Lit(<<Prefix6to4 + 1, 0, 100, 0, 0, 0, 0, 0>>),
          V6Lit(<<0, 0, 0, 0, 1, FFFF, 0, 100>>),
          BadLit}

(***************************************************************************)
(* Format B: the operations on a handle                                    *)
(***************************************************************************)
IdleH == [state |-> "idle"]

\* Format A at rest: no file, no reader, no lookup in progress
Threads == {"t1", "t2"}
NoMFile == [size |-> 0, pieces |-> <<>>]
NoReader == [state |-> "none"]
IdleCall == [pc |-> "idle"]
IdleA ==
    /\ mfile = NoMFile /\ reader = NoReader /\ cursor = 0
    /\ calls = [t \in Threads |-> IdleCall]

InitB ==
    /\ IdleA
    /\ fx \in Fixtures
    /\ file = BuildFile(fx)
    /\ globals = GlobalsUnset
    /\ db = NoDB
    /\ q = IdleQuery
    /\ hcfg = IdleH /\ hreq = IdleH /\ hres = IdleH

\* db, err := OpenDB(path) on the file on disk
OpenDB ==
    /\ db.state = "none"
    /\ globals' = GlobalsSet
    /\ db' = OpenResult(file)
    /\ UNCHANGED <<file, fx, q, hcfg, hreq, hres, mfile, reader, cursor, calls>>

\* d.Get_all(ip) from its call to the head of the search loop
QueryStart ==
    /\ db.state = "open"
    /\ q.pc \in {"idle", "done"}
    /\ \E lit \in Literals : q' = QueryEntry(db, file, globals, lit, all)
    /\ UNCHANGED <<file, fx, globals, db, hcfg, hreq, hres, mfile, reader, cursor, calls>>

\* one pass of the search loop of query
QueryLoop ==
    /\ db.state = "open"
    /\ q.pc = "loop"
    /\ \E bigalloc \in BOOLEAN : q' = QueryPass(db, file, all, q, bigalloc)
    /\ UNCHANGED <<file, fx, globals, db, hcfg, hreq, hres, mfile, reader, cursor, calls>>

\* d.Close()
CloseDB ==
    /\ db.state = "open"
    /\ q.pc \in {"idle", "done"}
    /\ db' = [db EXCEPT !.closed = TRUE]
    /\ UNCHANGED <<file, fx, globals, q, hcfg, hreq, hres, mfile, reader, cursor, calls>>

NextB == OpenDB \/ QueryStart \/ QueryLoop \/ CloseDB

SpecB == InitB /\ [][NextB]_vars

(***************************************************************************)
(* Format B: properties                                                    *)
(***************************************************************************)
\* the ip_from values of the table of family t, as the file was written
FamilyFrom(d, t) ==
    IF t = 4 THEN [i \in 1..Len(d.from4) |-> BigOf32(d.from4[i])] ELSE d.from6
FamilyMax(t) == IF t = 4 THEN max_ipv4_range ELSE Max128
\* sorted, starting at 0, closed by a terminating row at the family maximum
WellFormedTable(fr, mx) ==
    /\ Len(fr) >= 2
    /\ fr[1] = BigZero
    /\ \A i \in 1..(Len(fr) - 1) : BigCmp(fr[i], fr[i + 1]) < 0
    /\ fr[Len(fr)] = mx
Contains(fr, i, k) == BigCmp(fr[i + 1], k) <= 0 /\ BigCmp(k, fr[i + 2]) < 0
RowOf(fr, k) == CHOOSE i \in 0..(Len(fr) - 2) : Contains(fr, i, k)
\* no index for the family, or an index entry for the key whose window holds row
IndexWindowOK(d, t, k, row) ==
    LET idx == IF t = 4 THEN d.idx4 ELSE d.idx6
        top == IF t = 4 THEN k[7] ELSE k[1]
    IN  \/ idx = <<>>
        \/ /\ top < Len(idx)
           /\ idx[top + 1][1] <= row
           /\ row <= idx[top + 1][2]
\* the string pool entry the columns of row `row` of family t point to
PoolIndex(d, t, row) == IF t = 4 THEN row ELSE Len(d.from4) + row

QueryDone == db.state = "open" /\ q.pc = "done"

\* C1: on a range table that is sorted, starts at 0 and ends with a terminating
\* row at the family maximum, a lookup of any key k decodes the one row i with
\* ip_from(i) <= k' < ip_from(i+1), where k' = MAX-1 for k = MAX and k otherwise.
C1_LookupFindsRow ==
    (QueryDone /\ ~db.closed /\ q.iptype \in {4, 6}) =>
        LET fr == FamilyFrom(fx, q.iptype)
            mx == FamilyMax(q.iptype)
            k == q.ipnum
            kp == IF k = mx THEN BigDec(k) ELSE k
            row == RowOf(fr, kp)
        IN  (WellFormedTable(fr, mx) /\ IndexWindowOK(fx, q.iptype, k, row)) =>
                /\ q.matched
                /\ q.status = "ok"
                /\ q.mid = N32(row)
                /\ (Cell("country", fx.dbtype) # 0 =>
                        q.x.Country_short = PoolShort(PoolIndex(fx, q.iptype, row)))

\* the lookup of 255.255.255.255 on [0,100) [100,200) [200,300) [300,MAX] ended
\* on row 3, and the lookup of 100 on row 1
C1_Witness ==
    /\ QueryDone /\ ~db.closed /\ fx.from4 = T4Spec /\ fx.dbtype = 1
    /\ q.lit = V4Lit(Max32) /\ q.matched /\ q.mid = N32(3)
    /\ q.x.Country_short = PoolShort(3)

\* C4: a search that exhausts its window reports NotFound, an error; it never
\* returns success with an empty record.
C4_ExhaustedIsNotFound ==
    (QueryDone /\ q.exhausted) => (q.status = "err" /\ q.err = "not_found")

\* C6: an IPv4 literal yields family 4 and its 32-bit value; an IPv6 literal in
\* ::ffff:0:0/96, 2002::/16 or 2001:0000::/32 yields family 4 and the key of the
\* embedded IPv4 address (low 32 bits; bits 80..111; complement of the low 32
\* bits); every other IPv6 literal yields family 6 and its 128-bit value.
EmbeddedV4(g) ==
    IF (\A i \in 1..5 : g[i] = 0) /\ g[6] = FFFF THEN <<g[7], g[8]>>
    ELSE IF g[1] = Prefix6to4 THEN <<g[2], g[3]>>
    ELSE IF g[1] = PrefixTeredo /\ g[2] = 0 THEN <<FFFF - g[7], FFFF - g[8]>>
    ELSE NilIP
C6_Classify ==
    (db.state = "open" /\ q.pc # "idle") =>
        /\ (q.lit.kind = "bad" => q.iptype = 0)
        /\ (q.lit.kind = "v4" =>
                q.iptype = 4 /\ q.ipnum = <<0, 0, 0, 0, 0, 0, q.lit.g[7], q.lit.g[8]>>)
        /\ (q.lit.kind = "v6" /\ EmbeddedV4(q.lit.g) # NilIP =>
                /\ q.iptype = 4
                /\ q.ipnum = BigOf32(EmbeddedV4(q.lit.g))
                /\ q.ipnum = Classify(globals, V4Lit(EmbeddedV4(q.lit.g))).ipnum)
        /\ (q.lit.kind = "v6" /\ EmbeddedV4(q.lit.g) = NilIP =>
                q.iptype = 6 /\ q.ipnum = q.lit.g)

\* 2002:0000:0064::1 was classified as the IPv4 key 100
C6_Witness ==
    /\ db.state = "open" /\ q.pc # "idle"
    /\ q.lit = V6Lit(<<Prefix6to4, 0, 100, 0, 0, 0, 0, 1>>)
    /\ q.iptype = 4 /\ q.ipnum = BigN(100)

\* C7: a field whose position-table cell is 0 for the type of the database is
\* returned empty/zero by every lookup and is never the field a lookup fails on.
C7_DisabledFieldsEmpty ==
    QueryDone =>
        \A i \in 1..Len(QueryFields) :
            Cell(QueryFields[i].col, fx.dbtype) = 0 =>
                /\ q.x[QueryFields[i].f] = EmptyRecord[QueryFields[i].f]
                /\ q.failed # QueryFields[i].f

\* a lookup on a type-1 (country only) database returned the country and left
\* the region empty
C7_Witness ==
    /\ QueryDone /\ fx.dbtype = 1 /\ q.matched /\ q.status = "ok"
    /\ q.x.Country_short # <<>> /\ q.x.Region = <<>>

\* C8: for every type byte, 1 through 25 included, OpenDB indexes the position
\* tables within their bounds and ends with a handle or an error.
C8_OpenNeverPanics == db.state # "panic"

(***************************************************************************)
(* Middleware: client-IP detection (IP2Location.getIP).                    *)
(*                                                                         *)
(* A string is a sequence of tokens: "sp" is white space, "," a comma,     *)
(* ":p" a colon followed by a port number, "x" a word that is no address,  *)
(* and "ip1".."ip4" are four different dotted IPv4 literals.               *)
(***************************************************************************)
IPTokens == {"ip1", "ip2", "ip3", "ip4"}
NoIP == "nil"

\* strings.TrimSpace
RECURSIVE TrimLeft(_)
TrimLeft(str) ==
    IF str # <<>> /\ Head(str) = "sp" THEN TrimLeft(Tail(str)) ELSE str
RECURSIVE TrimRight(_)
TrimRight(str) ==
    IF str # <<>> /\ str[Len(str)] = "sp"
    THEN TrimRight(SubSeq(str, 1, Len(str) - 1))
    ELSE str
TrimSpace(str) == TrimRight(TrimLeft(str))

\* net.SplitHostPort on these strings: the port starts at the last colon; no
\* colon is "missing port", a colon left in the host is "too many colons"
ColonAt(str) == {i \in 1..Len(str) : str[i] = ":p"}
SplitHostPort(str) ==
    IF Cardinality(ColonAt(str)) = 1
    THEN [ok |-> TRUE, host |-> SubSeq(str, 1, (CHOOSE i \in ColonAt(str) : TRUE) - 1)]
    ELSE [ok |-> FALSE, host |-> <<>>]

\* net.ParseIP on these strings: exactly one address literal
ParseIPStr(str) == IF Len(str) = 1 /\ str[1] \in IPTokens THEN str[1] ELSE NoIP

\* strings.Split(s, ",")[0]
RECURSIVE FirstElement(_)
FirstElement(str) ==
    IF str = <<>> \/ Head(str) = "," THEN <<>>
    ELSE <<Head(str)>> \o FirstElement(Tail(str))

\* parseIP without the removal of the port
parseIPKeepPort(ipStr) == ParseIPStr(TrimSpace(ipStr))
\* IP2Location.parseIP
parseIP(ipStr) ==
    LET t == TrimSpace(ipStr)
        hp == SplitHostPort(t)
    IN  ParseIPStr(IF hp.ok THEN hp.host ELSE t)

\* textproto.CanonicalMIMEHeaderKey on the header names used
CanonicalKey(name) ==
    CASE name \in {"X-Real-IP", "x-real-ip", "X-Real-Ip"} -> "X-Real-Ip"
      [] name \in {"X-Forwarded-For", "x-forwarded-for"} -> "X-Forwarded-For"
      [] name \in {"X-Custom-IP", "X-Custom-Ip"} -> "X-Custom-Ip"
      [] name = "X-IP2LOCATION-ERROR" -> "X-Ip2location-Error"
      [] name = "X-GEOIP-ERROR" -> "X-Geoip-Error"
      [] name = "X-GeoIP-Test" -> "X-Geoip-Test"
      [] name = "X-GeoIP-Config-Country" -> "X-Geoip-Config-Country"
      [] OTHER -> name
HeaderNames == {"X-Real-Ip", "X-Forwarded-For", "X-Custom-Ip"}
\* req.Header.Get(name)
HeaderGet(req, name) ==
    IF CanonicalKey(name) \in DOMAIN req.header
    THEN req.header[CanonicalKey(name)] ELSE <<>>

\* A trustedProxies entry of the configuration: a CIDR (the set of the modelled
\* addresses it contains), a single address, or a string that is neither.
CIDR(ips) == [kind |-> "cidr", ips |-> ips]
SingleIP(ip) == [kind |-> "ip", ips |-> {ip}]
BadProxy == [kind |-> "bad", ips |-> {}]
\* the loop of New over config.TrustedProxies: invalid entries are skipped
RECURSIVE ParseTrusted(_)
ParseTrusted(list) ==
    IF list = <<>> THEN <<>>
    ELSE IF Head(list).kind = "bad" THEN ParseTrusted(Tail(list))
    ELSE <<Head(list).ips>> \o ParseTrusted(Tail(list))

\* the plugin New returns for a configuration (the database opened)
NewPlugin(config) ==
    [state |-> "ready",
     fromHeader |-> config.FromHeader,
     useXForwardedFor |-> config.UseXForwardedFor,
     useXRealIP |-> config.UseXRealIP,
     trustedProxies |-> ParseTrusted(config.TrustedProxies),
     config |-> config]

\* every remote address taken as a trusted proxy
isTrustedProxyAlways(a, remoteAddr) == TRUE
\* IP2Location.isTrustedProxy
isTrustedProxy(a, remoteAddr) ==
    IF Len(a.trustedProxies) = 0 THEN TRUE
    ELSE LET hp == SplitHostPort(remoteAddr)
             ip == ParseIPStr(hp.host)
         IN  IF ~hp.ok THEN FALSE
             ELSE IF ip = NoIP THEN FALSE
             ELSE \E i \in 1..Len(a.trustedProxies) : ip \in a.trustedProxies[i]

GetIPResult(ip, err) == [state |-> "done", ip |-> ip, err |-> err]

\* getIP with the X-Forwarded-For block before the X-Real-IP block
getIPSwapped(a, req) ==
    LET custom == parseIP(HeaderGet(req, a.fromHeader))
        trustProxy == isTrustedProxy(a, req.RemoteAddr)
        real == parseIP(HeaderGet(req, "X-Real-IP"))
        xff == HeaderGet(req, "X-Forwarded-For")
        fwd == parseIP(TrimSpace(FirstElement(xff)))
        hp == SplitHostPort(req.RemoteAddr)
        ip == ParseIPStr(hp.host)
    IN  IF a.fromHeader # "" /\ HeaderGet(req, a.fromHeader) # <<>> /\ custom # NoIP
        THEN GetIPResult(custom, "none")
        ELSE IF a.useXForwardedFor /\ trustProxy /\ xff # <<>> /\ fwd # NoIP
        THEN GetIPResult(fwd, "none")
        ELSE IF a.useXRealIP /\ trustProxy
                /\ HeaderGet(req, "X-Real-IP") # <<>> /\ real # NoIP
        THEN GetIPResult(real, "none")
        ELSE IF ~hp.ok THEN GetIPResult(NoIP, "failed to parse RemoteAddr")
        ELSE IF ip = NoIP THEN GetIPResult(NoIP, "invalid IP address in RemoteAddr")
        ELSE GetIPResult(ip, "none")

\* IP2Location.getIP
getIP(a, req) ==
    LET custom == parseIP(HeaderGet(req, a.fromHeader))
        trustProxy == isTrustedProxy(a, req.RemoteAddr)
        real == parseIP(HeaderGet(req, "X-Real-IP"))
        xff == HeaderGet(req, "X-Forwarded-For")
        fwd == parseIP(TrimSpace(FirstElement(xff)))
        hp == SplitHostPort(req.RemoteAddr)
        ip == ParseIPStr(hp.host)
    IN  IF a.fromHeader # "" /\ HeaderGet(req, a.fromHeader) # <<>> /\ custom # NoIP
        THEN GetIPResult(custom, "none")
        ELSE IF a.useXRealIP /\ trustProxy
                /\ HeaderGet(req, "X-Real-IP") # <<>> /\ real # NoIP
        THEN GetIPResult(real, "none")
        ELSE IF a.useXForwardedFor /\ trustProxy /\ xff # <<>> /\ fwd # NoIP
        THEN GetIPResult(fwd, "none")
        ELSE IF ~hp.ok THEN GetIPResult(NoIP, "failed to parse RemoteAddr")
        ELSE IF ip = NoIP THEN GetIPResult(NoIP, "invalid IP address in RemoteAddr")
        ELSE GetIPResult(ip, "none")

\* the configurations and requests served
FromHeaders == {"", "X-Custom-IP", "X-Real-IP", "x-forwarded-for"}
TrustedLists ==
    {<<>>, <<CIDR({"ip1"})>>, <<BadProxy>>, <<BadProxy, SingleIP("ip2")>>,
     <<CIDR({"ip1", "ip2"})>>}
Configs ==
    [FromHeader : FromHeaders, UseXForwardedFor : BOOLEAN, UseXRealIP : BOOLEAN,
     TrustedProxies : TrustedLists]
CustomValues == {<<>>, <<"ip2">>, <<"x">>, <<"ip2", ":p">>}
RealValues == {<<>>, <<"ip3">>, <<"sp", "ip3", ":p", "sp">>, <<"x">>}
ForwardedValues ==
    {<<>>, <<"ip4">>, <<"ip4", ",", "sp", "ip1">>,
     <<"sp", "ip4", ":p", ",", "ip1">>, <<"x", ",", "ip4">>, <<",", "ip4">>}
RemoteAddrs ==
    {<<"ip1", ":p">>, <<"ip2", ":p">>, <<"ip3", ":p">>, <<"ip1">>, <<"x", ":p">>}
Request(custom, real, forwarded, remote) ==
    [state |-> "request",
     header |-> [n \in HeaderNames |->
                    CASE n = "X-Custom-Ip" -> custom
                      [] n = "X-Real-Ip" -> real
                      [] n = "X-Forwarded-For" -> forwarded],
     RemoteAddr |-> remote]
Requests ==
    {Request(c, r, f, ra) :
        c \in CustomValues, r \in RealValues, f \in ForwardedValues,
        ra \in RemoteAddrs}

InitH ==
    /\ IdleA
    /\ hcfg = IdleH /\ hreq = IdleH /\ hres = IdleH
    /\ fx = Desc(1, T4Spec, <<>>, <<>>, <<>>)
    /\ file = <<>> /\ globals = GlobalsUnset /\ db = NoDB /\ q = IdleQuery

\* plugin, err := New(ctx, next, config, name)
New ==
    /\ hcfg.state = "idle"
    /\ \E config \in Configs : hcfg' = NewPlugin(config)
    /\ UNCHANGED <<hreq, hres, file, globals, db, q, fx, mfile, reader, cursor, calls>>

\* ip, err := a.getIP(req) for a request handed to ServeHTTP
GetIP ==
    /\ hcfg.state = "ready"
    /\ hreq.state = "idle"
    /\ \E req \in Requests :
        /\ hreq' = req
        /\ hres' = getIP(hcfg, req)
    /\ UNCHANGED <<hcfg, file, globals, db, q, fx, mfile, reader, cursor, calls>>

NextH == New \/ GetIP

SpecIP == InitH /\ [][NextH]_vars

(***************************************************************************)
(* Middleware: properties                                                  *)
(***************************************************************************)
GetIPDone == hcfg.state = "ready" /\ hres.state = "done"

\* the host of RemoteAddr as an address, NoIP when RemoteAddr has no port or
\* its host is no address
RemoteHost(req) ==
    IF Cardinality({i \in 1..Len(req.RemoteAddr) : req.RemoteAddr[i] = ":p"}) = 1
       /\ Len(req.RemoteAddr) >= 2 /\ req.RemoteAddr[2] = ":p"
       /\ req.RemoteAddr[1] \in IPTokens
    THEN req.RemoteAddr[1] ELSE NoIP
\* the remote counts as trusted: nothing to match against, or a match
RemoteTrusted(a, req) ==
    \/ a.trustedProxies = <<>>
    \/ \E i \in 1..Len(a.trustedProxies) : RemoteHost(req) \in a.trustedProxies[i]
\* the part of an X-Forwarded-For value before its first comma
BeforeComma(str) ==
    LET commas == {i \in 1..Len(str) : str[i] = ","}
    IN  IF commas = {} THEN str
        ELSE SubSeq(str, 1, (CHOOSE i \in commas : \A j \in commas : i <= j) - 1)
\* what each of the four sources yields, NoIP when it is disabled or yields none
Source1(a, req) ==
    IF a.fromHeader = "" THEN NoIP
    ELSE parseIP(req.header[CanonicalKey(a.fromHeader)])
Source2(a, req) ==
    IF a.useXRealIP /\ RemoteTrusted(a, req)
    THEN parseIP(req.header["X-Real-Ip"]) ELSE NoIP
Source3(a, req) ==
    IF a.useXForwardedFor /\ RemoteTrusted(a, req)
    THEN parseIP(BeforeComma(req.header["X-Forwarded-For"])) ELSE NoIP
Source4(a, req) == RemoteHost(req)
Sources(a, req) ==
    <<Source1(a, req), Source2(a, req), Source3(a, req), Source4(a, req)>>

UntrustedRemote(a, req) ==
    /\ \E i \in 1..Len(a.config.TrustedProxies) :
          a.config.TrustedProxies[i].kind # "bad"
    /\ \A i \in 1..Len(a.config.TrustedProxies) :
          RemoteHost(req) \notin a.config.TrustedProxies[i].ips
\* the request with other X-Real-IP and X-Forwarded-For values
WithProxyHeaders(req, real, forwarded) ==
    [req EXCEPT !.header["X-Real-Ip"] = real,
                !.header["X-Forwarded-For"] = forwarded]
SameForAllProxyHeaders ==
    \A real \in RealValues, forwarded \in ForwardedValues :
        getIP(hcfg, WithProxyHeaders(hreq, real, forwarded)) = hres

\* C10 as stated: with a valid trustedProxies entry and a remote in none of
\* them, the IP chosen does not depend on X-Real-IP and X-Forwarded-For.
C10_UntrustedIgnoresProxyHeaders ==
    (GetIPDone /\ UntrustedRemote(hcfg, hreq)) => SameForAllProxyHeaders

\* C10 amended: the same, provided fromHeader names neither of the two headers.
C10_UntrustedIgnoresProxyHeadersUnlessCustom ==
    (GetIPDone /\ UntrustedRemote(hcfg, hreq)
     /\ CanonicalKey(hcfg.fromHeader) \notin {"X-Real-Ip", "X-Forwarded-For"})
        => SameForAllProxyHeaders

\* a request from ip2, outside the trusted 'ip1' range, carrying both proxy
\* headers, was looked up under ip2
C10_Witness ==
    /\ GetIPDone /\ UntrustedRemote(hcfg, hreq)
    /\ hcfg.fromHeader = "" /\ hcfg.useXRealIP /\ hcfg.useXForwardedFor
    /\ hreq.header["X-Real-Ip"] = <<"ip3">>
    /\ hreq.header["X-Forwarded-For"] = <<"ip4">>
    /\ hreq.RemoteAddr = <<"ip2", ":p">>
    /\ hres.ip = "ip2"


(***************************************************************************)
(* Format A: files.  The MMDB file is its size and the pieces of it that   *)
(* are not zero; the reader has one os.File, whose offset is shared by     *)
(* every Seek and Read.                                                    *)
(***************************************************************************)
Piece(at, bytes) == [at |-> at, bytes |-> bytes]
MFile(size, pieces) == [size |-> size, pieces |-> pieces]
ByteAt(f, p) ==
    IF p < 0 \/ p >= f.size THEN 0
    ELSE LET hit == {k \in 1..Len(f.pieces) :
                        /\ f.pieces[k].at <= p
                        /\ p < f.pieces[k].at + Len(f.pieces[k].bytes)}
         IN  IF hit = {} THEN 0
             ELSE LET k == CHOOSE k \in hit : TRUE
                  IN  f.pieces[k].bytes[p - f.pieces[k].at + 1]

\* a position past every modelled file, standing for the offsets a uint32 holds
\* that the model's integers do not
Far == 2^30
Offset32(off) == IF off[1] >= 2^14 THEN Far ELSE off[1] * B16 + off[2]

\* r.file.ReadAt(buf, off) with its error ignored: the freshly made buf keeps
\* zeros where the file has no byte
FileReadAt(f, off, n) == [i \in 1..n |-> ByteAt(f, off + i - 1)]

\* the file offset left where it was
SeekNowhere(cur, offset) == cur
\* r.file.Seek(offset, 0): the new file offset
Seek(cur, offset) == offset

\* r.file.Read(buf of n bytes) at offset cur: what it returned and the new offset
FileRead(f, cur, n) ==
    IF n = 0 THEN [res |-> ReadResult(TRUE, <<>>), cur |-> cur]
    ELSE IF cur >= f.size THEN [res |-> ReadResult(FALSE, [i \in 1..n |-> 0]), cur |-> cur]
    ELSE LET k == Min(n, f.size - cur)
         IN  [res |-> ReadResult(TRUE, [i \in 1..n |->
                                            IF i <= k THEN ByteAt(f, cur + i - 1) ELSE 0]),
              cur |-> cur + k]

(***************************************************************************)
(* Format A: the data decoder.  The decoder reads the file through Read    *)
(* only, so it is a function of the results of the Reads made so far (ch): *)
(* it either asks for the next Read or ends with a value or an error.      *)
(***************************************************************************)
Value(t, b, m, a) == [t |-> t, b |-> b, m |-> m, a |-> a]
NilV == Value("nil", <<>>, <<>>, <<>>)
MapV(m) == Value("map", <<>>, m, <<>>)
Need(n) == [st |-> "need", n |-> n, v |-> NilV, k |-> 0, err |-> "none"]
Got(v, k) == [st |-> "ok", n |-> 0, v |-> v, k |-> k, err |-> "none"]
Bad(err) == [st |-> "err", n |-> 0, v |-> NilV, k |-> 0, err |-> err]

\* if _, err := r.file.Read(buf); err != nil { return nil, err }
Rd(ch, k, n) ==
    IF k > Len(ch) THEN Need(n)
    ELSE IF ~ch[k].ok THEN Bad("EOF")
    ELSE Got(Value("raw", ch[k].data, <<>>, <<>>), k + 1)

RECURSIVE BEFold(_, _, _)
BEFold(bytes, i, acc) ==
    IF i > Len(bytes) THEN acc ELSE BEFold(bytes, i + 1, acc * B8 + bytes[i])

\* the control byte, the extended type byte and the size bytes; each step is
\* an operator of its own that receives what the step before it read
ControlEnd(ctrl, t, z) ==
    IF z.st # "ok" THEN z
    ELSE [st |-> "ok", k |-> z.k,
          typeNum |-> IF ctrl \div 32 = 0 THEN (t.v.b[1] + 7) % B8 ELSE ctrl \div 32,
          dataSize |-> IF ctrl % 32 >= 29 THEN BEFold(z.v.b, 1, 0) + 28 ELSE ctrl % 32]
ControlSize(ch, ctrl, t) ==
    IF t.st # "ok" THEN t
    ELSE ControlEnd(ctrl, t, IF ctrl % 32 >= 29 THEN Rd(ch, t.k, (ctrl % 32) - 28) ELSE t)
ControlType(ch, k, c) ==
    IF c.st # "ok" THEN c
    ELSE ControlSize(ch, c.v.b[1], IF c.v.b[1] \div 32 = 0 THEN Rd(ch, k + 1, 1) ELSE c)
Control(ch, k) == ControlType(ch, k, Rd(ch, k, 1))

Typed(p, t) == IF p.st # "ok" THEN p ELSE Got(Value(t, p.v.b, <<>>, <<>>), p.k)
Payload(ch, k, n, t) == Typed(Rd(ch, k, n), t)

decodeStringBody(ch, h) ==
    IF h.st # "ok" THEN h
    ELSE IF h.typeNum # 2 THEN Bad("expected string type")
    ELSE Payload(ch, h.k, h.dataSize, "string")
decodeString(ch, k) == decodeStringBody(ch, Control(ch, k))

RECURSIVE decodeValue(_, _), decodeMap(_, _, _, _, _), decodeArray(_, _, _, _, _)
decodeValueBody(ch, h) ==
    IF h.st # "ok" THEN h
    ELSE CASE h.typeNum = 2 -> Payload(ch, h.k, h.dataSize, "string")
           [] h.typeNum = 3 -> IF h.dataSize # 8 THEN Bad("invalid double size")
                               ELSE Payload(ch, h.k, 8, "double")
           [] h.typeNum = 4 -> Payload(ch, h.k, h.dataSize, "bytes")
           [] h.typeNum = 5 -> IF h.dataSize # 2 THEN Bad("invalid uint16 size")
                               ELSE Payload(ch, h.k, 2, "uint16")
           [] h.typeNum = 6 -> IF h.dataSize # 4 THEN Bad("invalid uint32 size")
                               ELSE Payload(ch, h.k, 4, "uint32")
           [] h.typeNum = 7 -> decodeMap(ch, h.k, h.dataSize, 0, <<>>)
           [] h.typeNum = 8 -> decodeArray(ch, h.k, h.dataSize, 0, <<>>)
           [] h.typeNum = 14 ->
                Got(Value("bool", <<IF h.dataSize # 0 THEN 1 ELSE 0>>, <<>>, <<>>), h.k)
           [] OTHER -> IF h.k > Len(ch) THEN Need(h.dataSize) ELSE Got(NilV, h.k + 1)
decodeValue(ch, k) == decodeValueBody(ch, Control(ch, k))
\* result[key] = value, and on to the next entry
decodeMapPut(ch, size, i, result, key, value) ==
    IF value.st # "ok" THEN value
    ELSE decodeMap(ch, value.k, size, i + 1,
                   [x \in DOMAIN result \cup {key} |->
                       IF x = key THEN value.v ELSE result[x]])
decodeMapEntry(ch, size, i, result, key) ==
    IF key.st # "ok" THEN key
    ELSE decodeMapPut(ch, size, i, result, key.v.b, decodeValue(ch, key.k))
decodeMap(ch, k, size, i, result) ==
    IF i >= size THEN Got(MapV(result), k)
    ELSE decodeMapEntry(ch, size, i, result, decodeString(ch, k))
decodeArrayPut(ch, size, i, result, value) ==
    IF value.st # "ok" THEN value
    ELSE decodeArray(ch, value.k, size, i + 1, Append(result, value.v))
decodeArray(ch, k, size, i, result) ==
    IF i >= size THEN Got(Value("array", <<>>, <<>>, result), k)
    ELSE decodeArrayPut(ch, size, i, result, decodeValue(ch, k))

\* decodeData: the value when it is a map, an empty map otherwise
decodeDataBody(r) ==
    IF r.st = "ok" /\ r.v.t # "map" THEN Got(MapV(<<>>), r.k) ELSE r
decodeData(ch) == decodeDataBody(decodeValue(ch, 1))

(***************************************************************************)
(* Format A: parseGeoIP2Data                                               *)
(***************************************************************************)
K_country == <<99, 111, 117, 110, 116, 114, 121>>
K_iso_code == <<105, 115, 111, 95, 99, 111, 100, 101>>
K_names == <<110, 97, 109, 101, 115>>
K_continent == <<99, 111, 110, 116, 105, 110, 101, 110, 116>>
K_code == <<99, 111, 100, 101>>
K_city == <<99, 105, 116, 121>>
K_subdivisions == <<115, 117, 98, 100, 105, 118, 105, 115, 105, 111, 110, 115>>
K_postal == <<112, 111, 115, 116, 97, 108>>
K_location == <<108, 111, 99, 97, 116, 105, 111, 110>>
K_latitude == <<108, 97, 116, 105, 116, 117, 100, 101>>
K_longitude == <<108, 111, 110, 103, 105, 116, 117, 100, 101>>
K_time_zone == <<116, 105, 109, 101, 95, 122, 111, 110, 101>>
K_accuracy_radius == <<97, 99, 99, 117, 114, 97, 99, 121, 95, 114, 97, 100, 105, 117, 115>>
K_traits == <<116, 114, 97, 105, 116, 115>>
K_isp == <<105, 115, 112>>
K_autonomous_system_number == <<97, 117, 116, 111, 110, 111, 109, 111, 117, 115, 95, 115, 121, 115, 116, 101, 109, 95, 110, 117, 109, 98, 101, 114>>
K_autonomous_system_organization == <<97, 117, 116, 111, 110, 111, 109, 111, 117, 115, 95, 115, 121, 115, 116, 101, 109, 95, 111, 114, 103, 97, 110, 105, 122, 97, 116, 105, 111, 110>>
K_domain == <<100, 111, 109, 97, 105, 110>>
K_connection_type == <<99, 111, 110, 110, 101, 99, 116, 105, 111, 110, 95, 116, 121, 112, 101>>
K_user_type == <<117, 115, 101, 114, 95, 116, 121, 112, 101>>

\* a map that yields nothing for any key
MapGetNothing(v, key) == NilV
\* data[key], nil when data is no map or has no such key
MapGet(v, key) == IF v.t = "map" /\ key \in DOMAIN v.m THEN v.m[key] ELSE NilV
StringOf(v) == IF v.t = "string" THEN v.b ELSE <<>>
TypedOf(v, t) == IF v.t = t THEN v.b ELSE <<>>
NamesOf(v) ==
    LET names == MapGet(v, K_names)
        langs == IF names.t = "map"
                 THEN {l \in DOMAIN names.m : names.m[l].t = "string"} ELSE {}
    IN  [l \in langs |-> names.m[l].b]
RECURSIVE SubdivisionsOf(_, _, _)
SubdivisionsOf(a, i, out) ==
    IF i > Len(a) THEN out
    ELSE SubdivisionsOf(a, i + 1,
            IF a[i].t = "map"
            THEN Append(out, [IsoCode |-> StringOf(MapGet(a[i], K_iso_code)),
                              Names |-> NamesOf(a[i])])
            ELSE out)
parseGeoIP2Data(data) ==
    LET country == MapGet(data, K_country)
        continent == MapGet(data, K_continent)
        city == MapGet(data, K_city)
        subdivisions == MapGet(data, K_subdivisions)
        postal == MapGet(data, K_postal)
        location == MapGet(data, K_location)
        traits == MapGet(data, K_traits)
    IN  [ CountryIsoCode |-> StringOf(MapGet(country, K_iso_code)),
          CountryNames |-> NamesOf(country),
          ContinentCode |-> StringOf(MapGet(continent, K_code)),
          ContinentNames |-> NamesOf(continent),
          CityNames |-> NamesOf(city),
          Subdivisions |-> IF subdivisions.t = "array"
                           THEN SubdivisionsOf(subdivisions.a, 1, <<>>) ELSE <<>>,
          PostalCode |-> StringOf(MapGet(postal, K_code)),
          Latitude |-> TypedOf(MapGet(location, K_latitude), "double"),
          Longitude |-> TypedOf(MapGet(location, K_longitude), "double"),
          TimeZone |-> StringOf(MapGet(location, K_time_zone)),
          AccuracyRadius |-> TypedOf(MapGet(location, K_accuracy_radius), "uint16"),
          ISP |-> StringOf(MapGet(traits, K_isp)),
          AutonomousSystemNumber |->
              TypedOf(MapGet(traits, K_autonomous_system_number), "uint32"),
          AutonomousSystemOrganization |->
              StringOf(MapGet(traits, K_autonomous_system_organization)),
          Domain |-> StringOf(MapGet(traits, K_domain)),
          ConnectionType |-> StringOf(MapGet(traits, K_connection_type)),
          UserType |-> StringOf(MapGet(traits, K_user_type)) ]


(***************************************************************************)
(* Format A: OpenMMDB and readMetadata                                     *)
(***************************************************************************)
marker == <<171, 205, 239, 77, 97, 120, 77, 105, 110, 100, 46, 99, 111, 109>>
markerLen == Len(marker)
BufLen == 4096
Window == 128 * 1024

\* string(buf[i:i+markerLen]) == string(marker)
MarkerInBuf(buf, i) ==
    \A j \in 1..markerLen : buf[i + j] = marker[j]

\* the inner loop over buf: metadataOffset when the marker is in buf, else -1
MarkerIn(buf, offset, hits) ==
    IF hits # {}
    THEN offset + (CHOOSE i \in hits : \A j \in hits : i <= j) + markerLen
    ELSE -1
SearchBuf(buf, offset) ==
    MarkerIn(buf, offset, {i \in 0..(BufLen - markerLen) : MarkerInBuf(buf, i)})
\* the search loop from offset downward: metadataOffset, or -1
RECURSIVE SearchMarker(_, _)
SearchFound(f, offset, found) ==
    IF found # -1 THEN found ELSE SearchMarker(f, offset - 1)
SearchMarker(f, offset) ==
    IF offset >= 0 /\ offset >= f.size - Window
    THEN SearchFound(f, offset, SearchBuf(FileReadAt(f, offset, BufLen), offset))
    ELSE -1

\* r.file.Read(buf) with the error ignored
PlainReadBody(r) == [data |-> r.res.data, cur |-> r.cur]
PlainRead(f, cur, n) == PlainReadBody(FileRead(f, cur, n))
\* binary.Read(r.file, binary.BigEndian, &field) of n bytes: the field keeps
\* its zero value unless all n bytes were read
BinReadBody(f, cur, n, r) ==
    [data |-> IF r.res.ok /\ cur + n <= f.size THEN r.res.data
              ELSE [i \in 1..n |-> 0],
     cur |-> r.cur]
BinRead(f, cur, n) == BinReadBody(f, cur, n, FileRead(f, cur, n))

\* langLen/lang and typeLen/dbType: a length byte, then that many bytes
ReadSizedBody(f, len) == PlainRead(f, len.cur, len.data[1])
ReadSized(f, cur) == ReadSizedBody(f, PlainRead(f, cur, 1))
RECURSIVE ReadLanguages(_, _, _, _)
ReadLanguagesNext(f, left, langs, lang) ==
    ReadLanguages(f, lang.cur, left - 1, Append(langs, lang.data))
ReadLanguages(f, cur, left, langs) ==
    IF left = 0 THEN [langs |-> langs, cur |-> cur]
    ELSE ReadLanguagesNext(f, left, langs, ReadSized(f, cur))
ReadLanguagesCounted(f, langCount) ==
    ReadLanguages(f, langCount.cur, langCount.data[1], <<>>)
\* consecutive binary.Read calls for fields of the given widths
RECURSIVE BinReads(_, _, _, _)
BinReadsNext(f, widths, fields, r) ==
    BinReads(f, r.cur, Tail(widths), Append(fields, r.data))
BinReads(f, cur, widths, fields) ==
    IF widths = <<>> THEN [fields |-> fields, cur |-> cur]
    ELSE BinReadsNext(f, widths, fields, BinRead(f, cur, Head(widths)))

\* a * s modulo 2^32 for a 16-bit factor s
Mul32w(a, s) == Add32(Mul32(Mul32(a, s \div B8), B8), Mul32(a, s % B8))

\* the fields readMetadata fills in, from the Seek to metadataOffset on
MetadataOf(versions, dbType, langs, sizes) ==
    [ NodeCount |-> <<BEFold(SubSeq(sizes[2], 1, 2), 1, 0),
                      BEFold(SubSeq(sizes[2], 3, 4), 1, 0)>>,
      RecordSize |-> BEFold(sizes[1], 1, 0),
      IPVersion |-> BEFold(sizes[3], 1, 0),
      DatabaseType |-> dbType,
      Languages |-> langs,
      BinaryFormatMajorVersion |-> BEFold(versions[1], 1, 0),
      BinaryFormatMinorVersion |-> BEFold(versions[2], 1, 0),
      BuildEpoch |-> versions[3],
      DataSectionStart |-> Zero32 ]
MetadataSizes(f, versions, dbType, langs) ==
    MetadataOf(versions, dbType, langs.langs,
               BinReads(f, langs.cur, <<2, 4, 2>>, <<>>).fields)
MetadataLanguages(f, versions, dbType) ==
    MetadataSizes(f, versions, dbType.data,
                  ReadLanguagesCounted(f, PlainRead(f, dbType.cur, 1)))
MetadataType(f, versions) ==
    MetadataLanguages(f, versions.fields, ReadSized(f, versions.cur))
MetadataAt(f, metadataOffset) ==
    MetadataType(f, BinReads(f, metadataOffset, <<2, 2, 8>>, <<>>))

MetadataNotFound == "metadata marker not found"
readMetadataEnd(metadata) ==
    [err |-> "none", metadata |-> metadata,
     dataStart |-> Mul32(Mul32w(metadata.NodeCount, metadata.RecordSize), 2)]
\* the metadata read at the head of the file when no marker was found
readMetadataFromHead(f, metadataOffset) ==
    readMetadataEnd(MetadataAt(f, IF metadataOffset = -1 THEN 0 ELSE metadataOffset))
readMetadataFrom(f, metadataOffset) ==
    IF metadataOffset = -1
    THEN [err |-> MetadataNotFound]
    ELSE readMetadataEnd(MetadataAt(f, metadataOffset))
readMetadata(f) == readMetadataFrom(f, SearchMarker(f, f.size - markerLen - Window))

\* closed: r.file was closed; closeErr: what the last r.Close() returned
Reader(loaded, metadata) ==
    [state |-> "open", loaded |-> loaded, metadata |-> metadata,
     closed |-> FALSE, closeErr |-> "none"]
\* OpenMMDB on an existing file: the reader or the error, and the file offset
OpenMMDBData(f, metadata, dataSize) ==
    IF dataSize < 0
    THEN [reader |-> [state |-> "panic"], cursor |-> 0]
    ELSE [reader |-> Reader(TRUE, metadata), cursor |-> Min(dataSize, f.size)]
OpenMMDBSize(f, metadata, dataStart) ==
    OpenMMDBData(f, metadata,
                 IF dataStart - 128 < 0 THEN f.size - dataStart ELSE dataStart - 128)
OpenMMDBMeta(f, m) ==
    IF m.err # "none"
    THEN [reader |-> [state |-> "error", err |-> "failed to read metadata",
                      cause |-> m.err, fileClosed |-> TRUE],
          cursor |-> 0]
    ELSE OpenMMDBSize(f, m.metadata, Offset32(m.dataStart))
OpenMMDBResult(f) == OpenMMDBMeta(f, readMetadata(f))

(***************************************************************************)
(* Format A: LookupIP                                                      *)
(***************************************************************************)
ipNumOf(ip) == IF To4(ip) # NilIP THEN To4(ip) ELSE ip
ipBitsOf(ip) == IF To4(ip) # NilIP THEN 32 ELSE 128
\* big.Int.Bit(n) of a number held as 16-bit groups, most significant first
BigBit(x, n) == (x[Len(x) - (n \div 16)] \div (2^(n % 16))) % 2
\* the walk taking the address bits from the least significant end
WalkBitLow(ipNum, ipBits, i) == BigBit(ipNum, i)
\* bit := ipNum.Bit(ipBits - 1 - i)
WalkBit(ipNum, ipBits, i) == BigBit(ipNum, ipBits - 1 - i)

readNode24(buf) == <<buf[1], buf[2] * B8 + buf[3]>>
readNode28(buf, right) ==
    IF right
    THEN <<(buf[4] % 16) * B8 + buf[1], buf[2] * B8 + buf[3]>>
    ELSE N32(((buf[1] * B8 + buf[2]) * B8 + buf[3]) * 16 + (buf[4] \div 16))
readNode32(buf) == <<buf[1] * B8 + buf[2], buf[3] * B8 + buf[4]>>
readNodeAt(f, recordSize, offset, right) ==
    IF recordSize = 24
    THEN readNode24(FileReadAt(f, Offset32(IF right THEN Add32(offset, N32(3))
                                           ELSE offset), 3))
    ELSE IF recordSize = 28
    THEN readNode28(FileReadAt(f, Offset32(offset), 4), right)
    ELSE IF recordSize = 32
    THEN readNode32(FileReadAt(f, Offset32(IF right THEN Add32(offset, N32(4))
                                           ELSE offset), 4))
    ELSE Zero32
\* offset := nodeNum * uint32(recordSize) * 2
readNodeOffset(r, nodeNum) == Mul32(Mul32w(nodeNum, r.metadata.RecordSize), 2)
readNode(r, f, nodeNum, right) ==
    readNodeAt(f, r.metadata.RecordSize, readNodeOffset(r, nodeNum), right)

NoRecord == <<>>
LookupResult(record, err, cause) == [record |-> record, err |-> err, cause |-> cause]
NotFound == LookupResult(NoRecord, "IP not found in database", "none")
\* a record returned whether or not decodeData ended with an error
RecordResultAnyway(d) ==
    LookupResult(parseGeoIP2Data(IF d.st = "err" THEN MapV(<<>>) ELSE d.v), "none", "none")
\* what LookupIP returns once decodeData has ended with d
RecordResult(d) ==
    IF d.st = "err" THEN LookupResult(NoRecord, "failed to read data record", d.err)
    ELSE LookupResult(parseGeoIP2Data(d.v), "none", "none")

\* LookupIP from its call to the head of the walk
LookupEntry(r, ip) ==
    IF ~r.loaded
    THEN [pc |-> "done", ip |-> ip, ipBits |-> 0, i |-> 0, nodeNum |-> Zero32,
          taken |-> <<>>, dataOffset |-> Zero32, ch |-> <<>>,
          result |-> LookupResult(NoRecord, "metadata not loaded", "none")]
    ELSE [pc |-> "walk", ip |-> ip, ipBits |-> ipBitsOf(ip), i |-> 0,
          nodeNum |-> Zero32, taken |-> <<>>, dataOffset |-> Zero32, ch |-> <<>>,
          result |-> LookupResult(NoRecord, "none", "none")]

\* nodeNum = r.readNode(nodeNum, bit == 1)
WalkStep(c, bit, node) ==
    [c EXCEPT !.i = c.i + 1, !.nodeNum = node,
              !.taken = Append(c.taken, [from |-> c.nodeNum, bit |-> bit, to |-> node])]
WalkBitStep(r, f, c, bit) == WalkStep(c, bit, readNode(r, f, c.nodeNum, bit = 1))
\* one test of the loop condition: a pass of the walk, or what follows the loop
WalkPass(r, f, c) ==
    IF c.i < c.ipBits /\ Lt32(c.nodeNum, r.metadata.NodeCount)
    THEN WalkBitStep(r, f, c, WalkBit(ipNumOf(c.ip), c.ipBits, c.i))
    ELSE IF Le32(r.metadata.NodeCount, c.nodeNum)
    THEN [c EXCEPT !.pc = "seekRecord",
                   !.dataOffset = Add32(Sub32(c.nodeNum, r.metadata.NodeCount),
                                        r.metadata.DataSectionStart)]
    ELSE [c EXCEPT !.pc = "done", !.result = NotFound]

\* a Read of the decoder and, when it was the last one, the return of LookupIP
ReadEnd(c, cur, ch, d) ==
    [cur |-> cur,
     call |-> IF d.st = "need" THEN [c EXCEPT !.ch = ch]
              ELSE [c EXCEPT !.ch = ch, !.pc = "done", !.result = RecordResult(d)]]
ReadDecode(c, cur, ch) == ReadEnd(c, cur, ch, decodeData(ch))
ReadAppend(c, rd) == ReadDecode(c, rd.cur, Append(c.ch, rd.res))
ReadPass(f, cur, c) == ReadAppend(c, FileRead(f, cur, decodeData(c.ch).n))

\* LookupIP run from its call to its return with no other goroutine stepping:
\* the activation at its return and the file offset it leaves
RECURSIVE WalkAlone(_, _, _), ReadAlone(_, _)
WalkAlone(r, f, c) == IF c.pc = "walk" THEN WalkAlone(r, f, WalkPass(r, f, c)) ELSE c
ReadAloneNext(f, p) == IF p.call.pc = "done" THEN p ELSE ReadAlone(f, p)
ReadAlone(f, p) == ReadAloneNext(f, ReadPass(f, p.cur, p.call))
DecodeAlone(f, cur, c) ==
    IF c.pc = "done" THEN [cur |-> cur, call |-> c]
    ELSE ReadAlone(f, [cur |-> Seek(cur, Offset32(c.dataOffset)), call |-> c])
LookupRun(r, f, cur, ip) == DecodeAlone(f, cur, WalkAlone(r, f, LookupEntry(r, ip)))
LookupAlone(r, f, ip) == LookupRun(r, f, 0, ip).call.result

(***************************************************************************)
(* Format A: the files and readers the operations run on                   *)
(***************************************************************************)
\* metadata in the layout readMetadata reads: versions 2.0, epoch 1, type
\* "GI", one language "en", record size 24, node count 2, IP version 6
SimpleMeta ==
    <<0, 2, 0, 0, 0, 0, 0, 0, 0, 0, 0, 1, 2, 71, 73, 1, 2, 101, 110,
      0, 24, 0, 0, 0, 2, 0, 6>>
\* metadata as an MMDB map: {"node_count": uint32 2}
MapMeta == <<225, 74, 110, 111, 100, 101, 95, 99, 111, 117, 110, 116, 193, 2>>

\* a file of the given size with the marker at markerAt, followed by meta
MarkedFile(size, markerAt, meta) ==
    MFile(size, <<Piece(markerAt, marker \o meta)>>)
OnDisk(f) == [mfile |-> f, reader |-> NoReader, ips |-> [t1 |-> {}, t2 |-> {}]]
OpenFixtureSizes == {41, 1000, 5000, Window, Window + markerLen + 27, 300000}
\* how far before the end of the file the metadata ends
OpenFixtureBacks ==
    {0, 900, 4000, 100000, Window - markerLen - 27, Window - 27, Window}
OpenFixtures ==
    {OnDisk(MarkedFile(x[1], x[1] - markerLen - Len(x[2]) - x[3], x[2])) :
        x \in {y \in OpenFixtureSizes \X {SimpleMeta, MapMeta} \X OpenFixtureBacks :
                  y[1] - markerLen - Len(y[2]) - y[3] >= 0}}
    \cup {OnDisk(MFile(size, <<>>)) : size \in {0, 41, 300000}}

\* data records: {"postal": {"code": "1"}}, {"postal": {"code": "22"}}, the
\* string "hi", and a map cut off by the end of the file
RecA == <<225, 70, 112, 111, 115, 116, 97, 108, 225, 68, 99, 111, 100, 101, 65, 49>>
RecB == <<225, 70, 112, 111, 115, 116, 97, 108, 225, 68, 99, 111, 100, 101, 66, 50, 50>>
RecString == <<66, 104, 105>>
RecCut == <<225, 70, 112, 111>>
\* where the files of the readers below hold their first data record
DataAt == 100
AtA == DataAt
AtB == AtA + 20
AtString == AtB + 20
AtCut == AtString + Len(RecString)
DataPieces ==
    <<Piece(AtA, RecA), Piece(AtB, RecB), Piece(AtString, RecString), Piece(AtCut, RecCut)>>
DataEnd == AtCut + Len(RecCut)

Metadata(recordSize, nodeCount, dataSectionStart) ==
    [ NodeCount |-> N32(nodeCount), RecordSize |-> recordSize, IPVersion |-> 6,
      DatabaseType |-> <<71, 73>>, Languages |-> <<<<101, 110>>>>,
      BinaryFormatMajorVersion |-> 2, BinaryFormatMinorVersion |-> 0,
      BuildEpoch |-> <<0, 0, 0, 0, 0, 0, 0, 1>>,
      DataSectionStart |-> N32(dataSectionStart) ]
\* the addresses goroutine t1 and goroutine t2 may look up
Lookups(ips1, ips2) == [t1 |-> ips1, t2 |-> ips2]
\* a reader as code of the package builds it around an open file
Built(pieces, loaded, metadata, ips) ==
    [mfile |-> MFile(DataEnd, pieces \o DataPieces),
     reader |-> Reader(loaded, metadata), ips |-> ips]

IP0 == ParseIP(V4Lit(<<0, 0>>))
IP64 == ParseIP(V4Lit(<<16384, 0>>))
IP128 == ParseIP(V4Lit(<<32768, 0>>))
IP6High == ParseIP(V6Lit(<<32768, 0, 0, 0, 0, 0, 0, 0>>))
IP6Zero == ParseIP(V6Lit(BigZero))
IP6Low == ParseIP(V6Lit(<<0, 0, 0, 0, 0, 0, 0, 1>>))

LookupFixtures ==
    { \* 24-bit records, two nodes: 0 -> (1, leaf A), 1 -> (1, leaf "hi")
      Built(<<Piece(0, <<0, 0, 1, 0, 0, 2 + AtA>>),
              Piece(48, <<0, 0, 1, 0, 0, 2 + AtString>>)>>,
            TRUE, Metadata(24, 2, 0),
            Lookups({IP0, IP128}, {IP0, IP64, IP6Low})),
      \* 24-bit records, one node: 0 -> (leaf B, leaf on the cut map)
      Built(<<Piece(0, <<0, 0, 1 + AtB, 0, 0, 1 + AtCut>>)>>,
            TRUE, Metadata(24, 1, 0),
            Lookups({IP0, IP128}, {IP6High})),
      \* 28-bit records, one node: left past the file, right leaf A
      Built(<<Piece(0, <<0, 0, 1 + AtA, 0>>)>>,
            TRUE, Metadata(28, 1, 0),
            Lookups({IP0, IP128}, {IP0})),
      \* 32-bit records, one node: 0 -> (0, leaf B), data section start 20
      Built(<<Piece(0, <<0, 0, 0, 0, 0, 0, 0, 1 + AtB - 20>>)>>,
            TRUE, Metadata(32, 1, 20),
            Lookups({IP0, IP128}, {IP0})),
      \* a record size readNode does not know
      Built(<<Piece(0, <<0, 0, 1 + AtA, 0, 0, 1 + AtA>>)>>,
            TRUE, Metadata(16, 1, 0),
            Lookups({IP128}, {IP6Zero})),
      \* no nodes at all
      Built(<<>>, TRUE, Metadata(24, 0, AtString),
            Lookups({IP0}, {IP6High})),
      \* metadata never loaded
      Built(<<>>, FALSE, Metadata(0, 0, 0),
            Lookups({IP0}, {IP0})) }

(***************************************************************************)
(* Format A: the operations                                                *)
(***************************************************************************)
InitA ==
    /\ \E fixture \in OpenFixtures \cup LookupFixtures :
          /\ mfile = fixture.mfile
          /\ reader = fixture.reader
          /\ calls = [t \in Threads |-> [pc |-> "idle", ips |-> fixture.ips[t]]]
    /\ cursor = 0
    /\ hcfg = IdleH /\ hreq = IdleH /\ hres = IdleH
    /\ fx = Desc(1, T4Spec, <<>>, <<>>, <<>>)
    /\ file = <<>> /\ globals = GlobalsUnset /\ db = NoDB /\ q = IdleQuery

\* reader, err := OpenMMDB(filename)
OpenMMDB ==
    /\ reader.state = "none"
    /\ LET o == OpenMMDBResult(mfile)
       IN  reader' = o.reader /\ cursor' = o.cursor
    /\ UNCHANGED <<mfile, calls, varsB, varsH>>

\* the file as the reads of r find it: once r.file is closed every ReadAt and
\* every Read fails, as they do on a file without bytes
FileOf(r, f) == IF r.closed THEN NoMFile ELSE f

\* goroutine t calls r.LookupIP(ip)
LookupIP(t) ==
    /\ reader.state = "open"
    /\ calls[t].pc = "idle"
    /\ \E ip \in calls[t].ips :
          calls' = [calls EXCEPT ![t] = LookupEntry(reader, ip)]
    /\ UNCHANGED <<mfile, reader, cursor, varsB, varsH>>

\* one pass of the walk of goroutine t
Walk(t) ==
    /\ calls[t].pc = "walk"
    /\ calls' = [calls EXCEPT ![t] = WalkPass(reader, FileOf(reader, mfile), calls[t])]
    /\ UNCHANGED <<mfile, reader, cursor, varsB, varsH>>

\* r.file.Seek(int64(offset), 0) in readDataRecord
SeekRecord(t) ==
    /\ calls[t].pc = "seekRecord"
    /\ cursor' = IF reader.closed THEN cursor
                  ELSE Seek(cursor, Offset32(calls[t].dataOffset))
    /\ calls' = [calls EXCEPT ![t].pc = "seekData"]
    /\ UNCHANGED <<mfile, reader, varsB, varsH>>

\* r.file.Seek(int64(offset), 0) in readData
SeekData(t) ==
    /\ calls[t].pc = "seekData"
    /\ cursor' = IF reader.closed THEN cursor
                  ELSE Seek(cursor, Offset32(calls[t].dataOffset))
    /\ calls' = [calls EXCEPT ![t].pc = "read"]
    /\ UNCHANGED <<mfile, reader, varsB, varsH>>

\* the next r.file.Read of the decoder of goroutine t
Read(t) ==
    /\ calls[t].pc = "read"
    /\ LET p == ReadPass(FileOf(reader, mfile), cursor, calls[t])
       IN  cursor' = p.cur /\ calls' = [calls EXCEPT ![t] = p.call]
    /\ UNCHANGED <<mfile, reader, varsB, varsH>>

NextA ==
    \/ OpenMMDB
    \/ \E t \in Threads : LookupIP(t) \/ Walk(t) \/ SeekRecord(t) \/ SeekData(t) \/ Read(t)

SpecA == InitA /\ [][NextA]_vars


(***************************************************************************)
(* Format A: properties                                                    *)
(***************************************************************************)
\* the offsets at which the file holds the 14 marker bytes
MarkerOffsets(f) ==
    {p \in UNION {f.pieces[k].at..(f.pieces[k].at + Len(f.pieces[k].bytes)) :
                     k \in 1..Len(f.pieces)} :
        /\ p + markerLen <= f.size
        /\ \A j \in 1..markerLen : ByteAt(f, p + j - 1) = marker[j]}
\* the marker lies inside the trailing 128 KiB of the file
MarkerInWindow(f) == \E p \in MarkerOffsets(f) : p >= f.size - Window

\* C2: OpenMMDB on a file whose trailing 128 KiB hold the marker does not fail
\* with 'metadata marker not found'.
C2_MarkerInWindowIsFound ==
    (reader.state \in {"open", "error", "panic"} /\ MarkerInWindow(mfile)) =>
        ~(reader.state = "error" /\ reader.cause = MetadataNotFound)

\* C3: every LookupIP call returns the record or error it returns when it runs
\* alone, whatever the other goroutine does on the same reader.
C3_LookupsDoNotInterfere ==
    \A t \in Threads :
        calls[t].pc = "done" => calls[t].result = LookupAlone(reader, mfile, calls[t].ip)

\* bit j (1 = most significant) of the key the walk runs on
KeyBits(ip) == IF To4(ip) # NilIP THEN 32 ELSE 128
KeyBit(ip, j) ==
    LET groups == IF To4(ip) # NilIP THEN <<ip[7], ip[8]>> ELSE ip
        g == groups[((j - 1) \div 16) + 1]
    IN  (g \div (2^(15 - ((j - 1) % 16)))) % 2
InTrie(v) == Lt32(v, reader.metadata.NodeCount)
WalkOK(c) ==
    LET n == Len(c.taken)
    IN  /\ n = c.i /\ n <= KeyBits(c.ip) /\ c.ipBits = KeyBits(c.ip)
        /\ \A j \in 1..n :
              /\ c.taken[j].from = (IF j = 1 THEN Zero32 ELSE c.taken[j - 1].to)
              /\ InTrie(c.taken[j].from)
              /\ c.taken[j].bit = KeyBit(c.ip, j)
              /\ c.taken[j].to = readNode(reader, mfile, c.taken[j].from,
                                          c.taken[j].bit = 1)
        /\ c.nodeNum = (IF n = 0 THEN Zero32 ELSE c.taken[n].to)
        /\ (c.pc \in {"seekRecord", "seekData", "read"}
              \/ (c.pc = "done" /\ c.result # NotFound))
              => ~InTrie(c.nodeNum)
        /\ (c.pc = "done")
              => (c.result = NotFound
                    <=> (n = KeyBits(c.ip) /\ \A j \in 1..n : InTrie(c.taken[j].to)))

\* C5: the walk starts at node 0, takes the key's bits from the most
\* significant one, at most 32 (IPv4) or 128 (IPv6) of them, goes on only from
\* record values below node_count and turns to the data at the first value that
\* is not; LookupIP returns 'IP not found in database' exactly when all bits
\* were taken and every value read was below node_count.
C5_TrieWalk ==
    \A t \in Threads :
        (reader.state = "open" /\ reader.loaded /\ calls[t].pc # "idle")
            => WalkOK(calls[t])

\* one call ran out of its 32 bits inside the trie, the other left it for a
\* leaf on the second bit
C5_Witness ==
    /\ reader.state = "open"
    /\ calls["t1"].pc = "done" /\ calls["t1"].result = NotFound /\ calls["t1"].i = 32
    /\ calls["t2"].pc = "done" /\ calls["t2"].result.err = "none" /\ calls["t2"].i = 2
    /\ calls["t2"].taken[1].bit = 0 /\ calls["t2"].taken[2].bit = 1

\* the size in bytes of the search tree of a database: node_count record pairs
\* of record_size bits each
TrieBytes(m) == (Offset32(m.NodeCount) * m.RecordSize * 2) \div 8
\* the activation has left the walk for a data record
AtLeaf(c) ==
    c.pc \in {"seekRecord", "seekData", "read"} \/ (c.pc = "done" /\ c.result.err # NotFound.err)

\* C21: a record value p that is not below node_count is decoded at file offset
\* (p - node_count) + data_section_start, where data_section_start is
\* node_count * record_size * 2 / 8 as computed from the metadata.
C21_LeafAddressing ==
    \A t \in Threads :
        (reader.state = "open" /\ reader.loaded /\ calls[t].pc # "idle"
            /\ AtLeaf(calls[t]))
            => Offset32(calls[t].dataOffset)
                  = (Offset32(calls[t].nodeNum) - Offset32(reader.metadata.NodeCount))
                       + TrieBytes(reader.metadata)

\* C26: every read of the walk stays inside the search tree: the pair of node
\* n is read at byte offset n * record_size * 2 / 8, and it ends before
\* node_count * record_size * 2 / 8.
C26_TrieReadsInsideTrie ==
    \A t \in Threads :
        (reader.state = "open" /\ reader.loaded /\ calls[t].pc # "idle")
            => \A j \in 1..Len(calls[t].taken) :
                  LET at == Offset32(readNodeOffset(reader, calls[t].taken[j].from))
                      n == Offset32(calls[t].taken[j].from)
                  IN  /\ at = (n * reader.metadata.RecordSize * 2) \div 8
                      /\ at + (reader.metadata.RecordSize * 2) \div 8
                            <= TrieBytes(reader.metadata)

(***************************************************************************)
(* Format A: data sections written for the decoder.  A value to be written *)
(* is a tree; Encode writes it in the layout decodeValue reads: a control  *)
(* byte (type in the top 3 bits, size in the low 5), for an extended type  *)
(* the type byte (type - 7), for a size of 29 and more one size byte       *)
(* (size - 28), then the payload.                                          *)
(***************************************************************************)
TStr(b) == [t |-> "string", b |-> b, e |-> <<>>]
TDouble(b) == [t |-> "double", b |-> b, e |-> <<>>]
TU16(b) == [t |-> "uint16", b |-> b, e |-> <<>>]
TU32(b) == [t |-> "uint32", b |-> b, e |-> <<>>]
TBool(x) == [t |-> "bool", b |-> <<x>>, e |-> <<>>]
\* a map of the entries <<key, tree>>, an array of trees
TMap(e) == [t |-> "map", b |-> <<>>, e |-> e]
TArr(e) == [t |-> "array", b |-> <<>>, e |-> e]
\* bytes written as they are
TRaw(b) == [t |-> "raw", b |-> b, e |-> <<>>]
\* a payload written under the type tag typeNum (kept in n), a tag of 8 and
\* more as the byte typeNum - 7 after a control byte of type 0
TTag(typeNum, payload) == [t |-> "tag", b |-> payload, e |-> <<>>, n |-> typeNum]

SizeHead(typeNum, n) ==
    IF n < 29 THEN <<typeNum * 32 + n>> ELSE <<typeNum * 32 + 29, n - 28>>
ExtendedHead(typeNum, n) ==
    IF n < 29 THEN <<n, typeNum - 7>> ELSE <<29, typeNum - 7, n - 28>>
TagHead(typeNum, n) ==
    IF typeNum < 8 THEN SizeHead(typeNum, n) ELSE ExtendedHead(typeNum, n)
RECURSIVE Encode(_), EncodeEntries(_, _), EncodeItems(_, _)
Encode(v) ==
    CASE v.t = "string" -> SizeHead(2, Len(v.b)) \o v.b
      [] v.t = "double" -> SizeHead(3, Len(v.b)) \o v.b
      [] v.t = "uint16" -> SizeHead(5, Len(v.b)) \o v.b
      [] v.t = "uint32" -> SizeHead(6, Len(v.b)) \o v.b
      [] v.t = "map" -> SizeHead(7, Len(v.e)) \o EncodeEntries(v.e, 1)
      [] v.t = "array" -> ExtendedHead(8, Len(v.e)) \o EncodeItems(v.e, 1)
      [] v.t = "bool" -> ExtendedHead(14, v.b[1])
      [] v.t = "raw" -> v.b
      [] v.t = "tag" -> TagHead(v.n, Len(v.b)) \o v.b
EncodeEntries(e, i) ==
    IF i > Len(e) THEN <<>>
    ELSE Encode(TStr(e[i][1])) \o Encode(e[i][2]) \o EncodeEntries(e, i + 1)
EncodeItems(e, i) ==
    IF i > Len(e) THEN <<>>
    ELSE Encode(e[i]) \o EncodeItems(e, i + 1)

(***************************************************************************)
(* Middleware: New and ServeHTTP of the two handlers.  What a call of      *)
(* ServeHTTP did is kept as the list of its effects in the order it made   *)
(* them: the headers it set on the request, the headers it set on the      *)
(* response, and its call of the next handler.                             *)
(***************************************************************************)
\* the values written to headers: a string, or a number in the format used
Text(bytes) == [fmt |-> "text", v |-> bytes]
FormatFloat(bits, prec) == [fmt |-> prec, v |-> bits]
Itoa(bytes) == [fmt |-> "itoa", v |-> bytes]
NoValue == Text(<<>>)

\* req.Header.Set(name, value), rw.Header().Set(name, value), next.ServeHTTP;
\* a value that is a message is kept in msg, as the list of its parts
SetReq(name, value, msg) ==
    [op |-> "req", name |-> CanonicalKey(name), value |-> value, msg |-> msg]
SetRw(name, value, msg) ==
    [op |-> "rw", name |-> CanonicalKey(name), value |-> value, msg |-> msg]
CallNext == [op |-> "next", name |-> "", value |-> NoValue, msg |-> <<>>]

\* what ServeHTTP left behind: the address and error of getIP, the effects, and
\* whether the call returned or panicked
Served(r, lookup, log) ==
    [state |-> "served", ip |-> r.ip, err |-> r.err, lookup |-> lookup, log |-> log]
Panicked(r, log) ==
    [state |-> "panicked", ip |-> r.ip, err |-> r.err, lookup |-> "panic", log |-> log]

\* the text form of an address and back: ip.String() handed to Get_all, and the
\* net.IP handed to LookupIP, for the four addresses of the requests
AddrOf(ip) ==
    CASE ip = "ip1" -> V4Lit(N32(3))
      [] ip = "ip2" -> V4Lit(N32(0))
      [] ip = "ip3" -> V4Lit(<<16384, 0>>)
      [] ip = "ip4" -> V4Lit(Max32)

\* d.Get_all(ipaddress) from its call to its return
RECURSIVE QueryRun(_, _, _, _, _)
QueryRun(d, f, mode, qq, bigalloc) ==
    IF qq.pc = "loop"
    THEN QueryRun(d, f, mode, QueryPass(d, f, mode, qq, bigalloc), bigalloc)
    ELSE qq
Get_all(d, f, g, lit, bigalloc) ==
    QueryRun(d, f, all, QueryEntry(d, f, g, lit, all), bigalloc)

\* a float32 (two 16-bit limbs) and a float64 (eight bytes, <<>> when never
\* set) that compare unequal to 0: neither +0 nor -0
NonZeroFloat32(bits) == bits # Zero32 /\ bits # <<32768, 0>>
NonZeroFloat64(bytes) ==
    /\ \E i \in 1..Len(bytes) : bytes[i] # 0
    /\ ~(bytes[1] = 128 /\ \A i \in 2..Len(bytes) : bytes[i] = 0)
NonZeroInt(bytes) == \E i \in 1..Len(bytes) : bytes[i] # 0

(***************************************************************************)
(* The IP2Location handler (Format B)                                      *)
(***************************************************************************)
ErrorHeaderB == "X-IP2LOCATION-ERROR"
\* the blocks of IP2Location.addHeaders in source order: the mapping of the
\* configuration, the field of the record, and how its value is written
HeaderFieldsB ==
    << [cfg |-> "CountryShort", f |-> "Country_short", fmt |-> "text"],
       [cfg |-> "CountryLong", f |-> "Country_long", fmt |-> "text"],
       [cfg |-> "Region", f |-> "Region", fmt |-> "text"],
       [cfg |-> "City", f |-> "City", fmt |-> "text"],
       [cfg |-> "Isp", f |-> "Isp", fmt |-> "text"],
       [cfg |-> "Latitude", f |-> "Latitude", fmt |-> "f6"],
       [cfg |-> "Longitude", f |-> "Longitude", fmt |-> "f6"],
       [cfg |-> "Domain", f |-> "Domain", fmt |-> "text"],
       [cfg |-> "Zipcode", f |-> "Zipcode", fmt |-> "text"],
       [cfg |-> "Timezone", f |-> "Timezone", fmt |-> "text"],
       [cfg |-> "Netspeed", f |-> "Netspeed", fmt |-> "text"],
       [cfg |-> "Iddcode", f |-> "Iddcode", fmt |-> "text"],
       [cfg |-> "Areacode", f |-> "Areacode", fmt |-> "text"],
       [cfg |-> "Weatherstationcode", f |-> "Weatherstationcode", fmt |-> "text"],
       [cfg |-> "Weatherstationname", f |-> "Weatherstationname", fmt |-> "text"],
       [cfg |-> "Mcc", f |-> "Mcc", fmt |-> "text"],
       [cfg |-> "Mnc", f |-> "Mnc", fmt |-> "text"],
       [cfg |-> "Mobilebrand", f |-> "Mobilebrand", fmt |-> "text"],
       [cfg |-> "Elevation", f |-> "Elevation", fmt |-> "f2"],
       [cfg |-> "Usagetype", f |-> "Usagetype", fmt |-> "text"] >>
MappingsB == {HeaderFieldsB[i].cfg : i \in 1..Len(HeaderFieldsB)}

\* the test and the value of one block
FieldSetB(hf, record) ==
    CASE hf.fmt = "text" -> record[hf.f] # <<>>
      [] hf.fmt = "f6" -> NonZeroFloat32(record[hf.f])
      [] hf.fmt = "f2" -> record[hf.f] # 0
FieldValueB(hf, record) ==
    CASE hf.fmt = "text" -> Text(record[hf.f])
      [] hf.fmt = "f6" -> FormatFloat(record[hf.f], "f6")
      [] hf.fmt = "f2" -> FormatFloat(<<record[hf.f]>>, "f2")
\* IP2Location.addHeaders
RECURSIVE addHeadersB(_, _, _, _)
addHeadersB(a, record, i, log) ==
    IF i > Len(HeaderFieldsB) THEN log
    ELSE addHeadersB(a, record, i + 1,
            IF a.headers[HeaderFieldsB[i].cfg] # ""
               /\ FieldSetB(HeaderFieldsB[i], record)
            THEN Append(log, SetReq(a.headers[HeaderFieldsB[i].cfg],
                                    FieldValueB(HeaderFieldsB[i], record), <<>>))
            ELSE log)

\* the error branch with the next handler called before the header is set
ErrorLogBNextFirst(a, msg) ==
    IF ~a.disableErrorHeader
    THEN <<CallNext, SetReq(ErrorHeaderB, NoValue, msg)>>
    ELSE <<CallNext>>
\* the error branch of IP2Location.ServeHTTP
ErrorLogB(a, msg) ==
    IF ~a.disableErrorHeader
    THEN <<SetReq(ErrorHeaderB, NoValue, msg), CallNext>>
    ELSE <<CallNext>>
\* IP2Location.ServeHTTP after a.db.Get_all returned qq
ServeAfterQuery(a, r, qq) ==
    IF qq.status = "panic" THEN Panicked(r, <<>>)
    ELSE IF qq.status = "err" THEN Served(r, "err", ErrorLogB(a, <<qq.err>>))
    ELSE Served(r, "ok", Append(addHeadersB(a, qq.x, 1, <<>>), CallNext))
\* IP2Location.ServeHTTP after a.getIP returned r; qq is what Get_all returns
ServeAfterGetIPB(a, r, qq) ==
    IF r.err # "none" THEN Served(r, "none", ErrorLogB(a, <<r.err>>))
    ELSE IF r.ip = NoIP
    THEN Served(r, "none", ErrorLogB(a, <<"could not determine client IP">>))
    ELSE ServeAfterQuery(a, r, qq)
\* the query ServeHTTP makes for the result r of getIP, IdleQuery when none
ServeQueryB(d, f, g, r, bigalloc) ==
    IF r.err # "none" \/ r.ip = NoIP THEN IdleQuery
    ELSE Get_all(d, f, g, AddrOf(r.ip), bigalloc)

(***************************************************************************)
(* The GeoIP handler (Format A)                                            *)
(***************************************************************************)
ErrorHeaderA == "X-GEOIP-ERROR"
LangEn == <<101, 110>>
\* names["en"], the empty string when the map has no such key
EnName(names) == IF LangEn \in DOMAIN names THEN names[LangEn] ELSE <<>>
\* the blocks of GeoIP.addHeaders and GeoIP.addResponseHeaders in source order:
\* the mapping of the configuration, the field of the record, how it is written
HeaderFieldsA ==
    << [cfg |-> "countryCode", f |-> "Country.IsoCode", fmt |-> "text"],
       [cfg |-> "countryName", f |-> "Country.Names", fmt |-> "text"],
       [cfg |-> "countryShort", f |-> "Country.IsoCode", fmt |-> "text"],
       [cfg |-> "countryLong", f |-> "Country.Names", fmt |-> "text"],
       [cfg |-> "continentCode", f |-> "Continent.Code", fmt |-> "text"],
       [cfg |-> "continentName", f |-> "Continent.Names", fmt |-> "text"],
       [cfg |-> "region", f |-> "Subdivision.Names", fmt |-> "text"],
       [cfg |-> "regionCode", f |-> "Subdivision.IsoCode", fmt |-> "text"],
       [cfg |-> "city", f |-> "City.Names", fmt |-> "text"],
       [cfg |-> "postalCode", f |-> "Postal.Code", fmt |-> "text"],
       [cfg |-> "zipcode", f |-> "Postal.Code", fmt |-> "text"],
       [cfg |-> "latitude", f |-> "Location.Latitude", fmt |-> "f6"],
       [cfg |-> "longitude", f |-> "Location.Longitude", fmt |-> "f6"],
       [cfg |-> "timezone", f |-> "Location.TimeZone", fmt |-> "text"],
       [cfg |-> "accuracyRadius", f |-> "Location.AccuracyRadius", fmt |-> "itoa"],
       [cfg |-> "isp", f |-> "Traits.ISP", fmt |-> "text"],
       [cfg |-> "asn", f |-> "Traits.AutonomousSystemNumber", fmt |-> "itoa"],
       [cfg |-> "asnOrganization", f |-> "Traits.AutonomousSystemOrganization",
        fmt |-> "text"],
       [cfg |-> "domain", f |-> "Traits.Domain", fmt |-> "text"],
       [cfg |-> "connectionType", f |-> "Traits.ConnectionType", fmt |-> "text"],
       [cfg |-> "userType", f |-> "Traits.UserType", fmt |-> "text"] >>
MappingsA == {HeaderFieldsA[i].cfg : i \in 1..Len(HeaderFieldsA)}

\* the field of the record a block reads ("Subdivision" is Subdivisions[0],
\* read only when len(record.Subdivisions) > 0)
FieldOfA(record, f) ==
    CASE f = "Country.IsoCode" -> record.CountryIsoCode
      [] f = "Country.Names" -> EnName(record.CountryNames)
      [] f = "Continent.Code" -> record.ContinentCode
      [] f = "Continent.Names" -> EnName(record.ContinentNames)
      [] f = "Subdivision.Names" ->
            IF Len(record.Subdivisions) > 0
            THEN EnName(record.Subdivisions[1].Names) ELSE <<>>
      [] f = "Subdivision.IsoCode" ->
            IF Len(record.Subdivisions) > 0
            THEN record.Subdivisions[1].IsoCode ELSE <<>>
      [] f = "City.Names" -> EnName(record.CityNames)
      [] f = "Postal.Code" -> record.PostalCode
      [] f = "Location.Latitude" -> record.Latitude
      [] f = "Location.Longitude" -> record.Longitude
      [] f = "Location.TimeZone" -> record.TimeZone
      [] f = "Location.AccuracyRadius" -> record.AccuracyRadius
      [] f = "Traits.ISP" -> record.ISP
      [] f = "Traits.AutonomousSystemNumber" -> record.AutonomousSystemNumber
      [] f = "Traits.AutonomousSystemOrganization" ->
            record.AutonomousSystemOrganization
      [] f = "Traits.Domain" -> record.Domain
      [] f = "Traits.ConnectionType" -> record.ConnectionType
      [] f = "Traits.UserType" -> record.UserType
FieldSetA(fmt, v) ==
    CASE fmt = "text" -> v # <<>>
      [] fmt = "f6" -> NonZeroFloat64(v)
      [] fmt = "itoa" -> NonZeroInt(v)
FieldValueA(fmt, v) ==
    CASE fmt = "text" -> Text(v)
      [] fmt = "f6" -> FormatFloat(v, "f6")
      [] fmt = "itoa" -> Itoa(v)
\* one block of addHeaders (op "req") or of addResponseHeaders (op "rw")
HeaderBlockA(g, op, hf, v, log) ==
    IF g.headers[hf.cfg] # "" /\ FieldSetA(hf.fmt, v)
    THEN Append(log, IF op = "req"
                     THEN SetReq(g.headers[hf.cfg], FieldValueA(hf.fmt, v), <<>>)
                     ELSE SetRw(g.headers[hf.cfg], FieldValueA(hf.fmt, v), <<>>))
    ELSE log
RECURSIVE addHeadersFromA(_, _, _, _, _)
addHeadersFromA(g, op, record, i, log) ==
    IF i > Len(HeaderFieldsA) THEN log
    ELSE addHeadersFromA(g, op, record, i + 1,
            HeaderBlockA(g, op, HeaderFieldsA[i],
                         FieldOfA(record, HeaderFieldsA[i].f), log))
\* GeoIP.addHeaders
addHeaders(g, record, log) == addHeadersFromA(g, "req", record, 1, log)
\* GeoIP.addResponseHeaders: the two headers it always sets, then the blocks
addResponseHeaders(g, record, log) ==
    addHeadersFromA(g, "rw", record, 1,
        log \o <<SetRw("X-GeoIP-Test", NoValue, <<"plugin-loaded">>),
                 SetRw("X-GeoIP-Config-Country", NoValue, <<g.headers["countryCode"]>>)>>)

\* the error branch with the header set whatever disableErrorHeader says
ErrorLogAAlways(g, msg) ==
    <<SetReq(ErrorHeaderA, NoValue, msg), SetRw(ErrorHeaderA, NoValue, msg), CallNext>>
\* the error branch of GeoIP.ServeHTTP
ErrorLogA(g, msg) ==
    IF ~g.disableErrorHeader
    THEN <<SetReq(ErrorHeaderA, NoValue, msg), SetRw(ErrorHeaderA, NoValue, msg),
           CallNext>>
    ELSE <<CallNext>>
\* GeoIP.ServeHTTP after g.db.LookupIP returned res
ServeAfterLookup(g, r, res) ==
    IF res.err # "none"
    THEN Served(r, "err", ErrorLogA(g, <<"database lookup failed", res.err>>))
    ELSE Served(r, "ok", Append(addResponseHeaders(g, res.record,
                                                   addHeaders(g, res.record, <<>>)),
                                CallNext))
\* GeoIP.ServeHTTP after g.getIP returned r; res is what LookupIP returns
ServeAfterGetIPA(g, r, res) ==
    IF r.err # "none" THEN Served(r, "none", ErrorLogA(g, <<r.err>>))
    ELSE IF r.ip = NoIP
    THEN Served(r, "none", ErrorLogA(g, <<"could not determine client IP">>))
    ELSE ServeAfterLookup(g, r, res)
\* the lookup ServeHTTP makes for the result r of getIP, none when getIP failed
ServeLookupA(rd, f, cur, r) ==
    IF r.err # "none" \/ r.ip = NoIP THEN [cur |-> cur, call |-> IdleCall]
    ELSE LookupRun(rd, f, cur, ParseIP(AddrOf(r.ip)))

(***************************************************************************)
(* The handlers at work: configurations, the databases on disk, requests   *)
(***************************************************************************)
\* the paths of the database files on disk; no other path exists
DBPath == "IP2LOCATION-LITE-DB1.BIN"
MMDBPath == "GeoLite2-City.mmdb"
\* os.Open(dbpath) and the rest of OpenDB
OpenDBPath(f, path) == IF path = DBPath THEN OpenResult(f) ELSE [state |-> "error"]
\* os.Open(filename) and the rest of OpenMMDB
OpenMMDBPath(f, path) ==
    IF path = MMDBPath THEN OpenMMDBResult(f).reader
    ELSE [state |-> "error", err |-> "failed to open MMDB file", cause |-> "not exist"]

\* the header mappings of a configuration: none, the country only, every field
\* under a name of its own, and the country under the name of the error header
NoHeadersB == [m \in MappingsB |-> ""]
CountryHeaderB == [NoHeadersB EXCEPT !["CountryShort"] = "X-Country"]
AllHeadersB ==
    [ CountryShort |-> "X-Ip2l-Countryshort",
      CountryLong |-> "X-Ip2l-Countrylong", Region |-> "X-Ip2l-Region",
      City |-> "X-Ip2l-City", Isp |-> "X-Ip2l-Isp",
      Latitude |-> "X-Ip2l-Latitude", Longitude |-> "X-Ip2l-Longitude",
      Domain |-> "X-Ip2l-Domain", Zipcode |-> "X-Ip2l-Zipcode",
      Timezone |-> "X-Ip2l-Timezone", Netspeed |-> "X-Ip2l-Netspeed",
      Iddcode |-> "X-Ip2l-Iddcode", Areacode |-> "X-Ip2l-Areacode",
      Weatherstationcode |-> "X-Ip2l-Weatherstationcode",
      Weatherstationname |-> "X-Ip2l-Weatherstationname",
      Mcc |-> "X-Ip2l-Mcc", Mnc |-> "X-Ip2l-Mnc",
      Mobilebrand |-> "X-Ip2l-Mobilebrand",
      Elevation |-> "X-Ip2l-Elevation", Usagetype |-> "X-Ip2l-Usagetype" ]
ErrorNamedB == [NoHeadersB EXCEPT !["CountryShort"] = ErrorHeaderB]
NoHeadersA == [m \in MappingsA |-> ""]
CountryHeaderA == [NoHeadersA EXCEPT !["countryCode"] = "X-Country"]
AllHeadersA ==
    [ countryCode |-> "X-Geo-Countrycode",
      countryName |-> "X-Geo-Countryname",
      countryShort |-> "X-Geo-Countryshort",
      countryLong |-> "X-Geo-Countrylong",
      continentCode |-> "X-Geo-Continentcode",
      continentName |-> "X-Geo-Continentname", region |-> "X-Geo-Region",
      regionCode |-> "X-Geo-Regioncode", city |-> "X-Geo-City",
      postalCode |-> "X-Geo-Postalcode", zipcode |-> "X-Geo-Zipcode",
      latitude |-> "X-Geo-Latitude", longitude |-> "X-Geo-Longitude",
      timezone |-> "X-Geo-Timezone",
      accuracyRadius |-> "X-Geo-Accuracyradius", isp |-> "X-Geo-Isp",
      asn |-> "X-Geo-Asn", asnOrganization |-> "X-Geo-Asnorganization",
      domain |-> "X-Geo-Domain", connectionType |-> "X-Geo-Connectiontype",
      userType |-> "X-Geo-Usertype" ]
ErrorNamedA == [NoHeadersA EXCEPT !["countryCode"] = ErrorHeaderA]

ServeConfigs(filenames, headers) ==
    [Filename : filenames, FromHeader : {"", "X-Custom-IP"},
     UseXForwardedFor : {TRUE}, UseXRealIP : BOOLEAN,
     TrustedProxies : {<<>>, <<CIDR({"ip1"})>>},
     DisableErrorHeader : BOOLEAN, Headers : headers]
ServeConfigsB ==
    ServeConfigs({"", "nonexistent.bin", DBPath},
                 {NoHeadersB, CountryHeaderB, AllHeadersB, ErrorNamedB})
ServeConfigsA ==
    ServeConfigs({"", "nonexistent.bin", MMDBPath},
                 {NoHeadersA, CountryHeaderA, AllHeadersA, ErrorNamedA})
ServeRequests ==
    {Request(c, r, f, ra) :
        c \in {<<>>, <<"ip2">>}, r \in {<<>>, <<"ip3">>}, f \in {<<>>, <<"ip4">>},
        ra \in {<<"ip1", ":p">>, <<"ip2", ":p">>, <<"ip1">>, <<"x", ":p">>}}

\* the plugin struct New fills in: the fields getIP reads and those ServeHTTP reads
Plugin(kind, via, config) ==
    [kind |-> kind, via |-> via, headers |-> config.Headers,
     disableErrorHeader |-> config.DisableErrorHeader] @@ NewPlugin(config)
NewFailed(kind, config, err) ==
    [state |-> "error", kind |-> kind, via |-> "New", err |-> err, config |-> config]
NewPanicked(kind, config) ==
    [state |-> "panic", kind |-> kind, via |-> "New", config |-> config]
\* New handing out a handler whatever the filename and whatever OpenDB returned
NewIP2LocationResultAnyway(config, d) ==
    IF d.state = "panic" THEN NewPanicked("IP2Location", config)
    ELSE Plugin("IP2Location", "New", config)
\* New of the IP2Location handler, d being what OpenDB(config.Filename) returns
NewIP2LocationResult(config, d) ==
    IF config.Filename = "" THEN NewFailed("IP2Location", config, "filename is required")
    ELSE IF d.state = "panic" THEN NewPanicked("IP2Location", config)
    ELSE IF d.state = "error"
    THEN NewFailed("IP2Location", config, "error opening database file")
    ELSE Plugin("IP2Location", "New", config)
\* New of the GeoIP handler, rd being what OpenMMDB(config.Filename) returns
NewGeoIPResult(config, rd) ==
    IF config.Filename = "" THEN NewFailed("GeoIP", config, "filename is required")
    ELSE IF rd.state = "panic" THEN NewPanicked("GeoIP", config)
    ELSE IF rd.state = "error"
    THEN NewFailed("GeoIP", config, "error opening MaxMind database file")
    ELSE Plugin("GeoIP", "New", config)

\* the Format B databases the IP2Location handler is deployed with: types 1,
\* 11 and 24, an index whose windows miss the rows, a file cut short, and a
\* file of type 25
ServeFixturesB ==
    {Desc(1, T4Spec, T6Spec, <<>>, <<>>), Desc(11, T4Spec, T6Spec, <<>>, <<>>),
     Desc(24, T4Spec, T6Spec, <<>>, <<>>),
     Desc(1, T4Wide, T6Spec, <<<<3, 1>>, <<2, 2>>, <<0, 0>>>>, <<<<1, 0>>, <<0, 0>>>>),
     [Desc(1, T4Spec, <<>>, <<>>, <<>>) EXCEPT !.truncated = TRUE],
     Desc(25, T4Spec, T6Spec, <<>>, <<>>)}

\* the record the GeoIP handler finds: country US / "USA", subdivision CA,
\* latitude 36.0, accuracy radius 50, AS number 258
TreeFull ==
    TMap(<< <<K_country,
              TMap(<< <<K_iso_code, TStr(<<85, 83>>)>>,
                      <<K_names, TMap(<< <<LangEn, TStr(<<85, 83, 65>>)>> >>)>> >>)>>,
            <<K_subdivisions,
              TArr(<< TMap(<< <<K_iso_code, TStr(<<67, 65>>)>> >>) >>)>>,
            <<K_location,
              TMap(<< <<K_latitude, TDouble(<<64, 66, 0, 0, 0, 0, 0, 0>>)>>,
                      <<K_accuracy_radius, TU16(<<0, 50>>)>> >>)>>,
            <<K_traits,
              TMap(<< <<K_autonomous_system_number, TU32(<<0, 0, 1, 2>>)>> >>)>> >>)
AtFull == DataEnd
\* 24-bit records, two nodes: 0 -> (1, leaf on the cut map),
\* 1 -> (1, leaf on the full record)
ServeFile ==
    MFile(AtFull + Len(Encode(TreeFull)),
          <<Piece(0, <<0, 0, 1, 0, 0, 2 + AtCut>>),
            Piece(48, <<0, 0, 1, 0, 0, 2 + AtFull>>)>>
          \o DataPieces \o <<Piece(AtFull, Encode(TreeFull))>>)
ServeReaders ==
    {[mfile |-> ServeFile, reader |-> Reader(TRUE, Metadata(24, 2, 0))],
     [mfile |-> ServeFile, reader |-> Reader(FALSE, Metadata(0, 0, 0))]}

\* IP2Location.ServeHTTP(rw, req): the query it made and what it left behind
ServeB(a, r, qq) == [q |-> qq, res |-> ServeAfterGetIPB(a, r, qq)]
ServeQueriedB(a, d, f, g, r, bigalloc) ==
    ServeB(a, r, ServeQueryB(d, f, g, r, bigalloc))
ServeHTTPB(a, d, f, g, req, bigalloc) ==
    ServeQueriedB(a, d, f, g, getIP(a, req), bigalloc)
\* GeoIP.ServeHTTP(rw, req): the lookup it made, where that left the file
\* offset, and what it left behind
ServeA(g, r, run) ==
    [call |-> run.call, cur |-> run.cur,
     res |-> ServeAfterGetIPA(g, r, IF run.call.pc = "done" THEN run.call.result
                                    ELSE NotFound)]
ServeLookedUpA(g, rd, f, cur, r) == ServeA(g, r, ServeLookupA(rd, f, cur, r))
ServeHTTPA(g, rd, f, cur, req) == ServeLookedUpA(g, rd, f, cur, getIP(g, req))

InitS ==
    /\ hcfg = IdleH /\ hreq = IdleH /\ hres = IdleH
    /\ globals = GlobalsUnset /\ db = NoDB /\ q = IdleQuery
    /\ cursor = 0 /\ calls = [t \in Threads |-> IdleCall]
    /\ \/ /\ fx \in ServeFixturesB
          /\ file = BuildFile(fx)
          /\ mfile = NoMFile /\ reader = NoReader
       \/ /\ fx = Desc(1, T4Spec, <<>>, <<>>, <<>>)
          /\ file = <<>>
          /\ \E fixture \in ServeReaders :
                mfile = fixture.mfile /\ reader = fixture.reader

\* handler, err := New(ctx, next, config, name) of the IP2Location handler
NewIP2Location ==
    /\ hcfg.state = "idle" /\ reader.state = "none"
    /\ \E config \in ServeConfigsB :
          /\ hcfg' = NewIP2LocationResult(config, OpenDBPath(file, config.Filename))
          /\ db' = IF config.Filename = "" THEN db
                   ELSE OpenDBPath(file, config.Filename)
          /\ globals' = IF config.Filename = "" THEN globals ELSE GlobalsSet
    /\ UNCHANGED <<file, fx, q, hreq, hres, varsA>>

\* handler, err := New(ctx, next, config, name) of the GeoIP handler
NewGeoIP ==
    /\ hcfg.state = "idle" /\ reader.state # "none"
    /\ \E config \in ServeConfigsA :
          /\ hcfg' = NewGeoIPResult(config, OpenMMDBPath(mfile, config.Filename))
          /\ reader' = IF hcfg'.state = "ready"
                       THEN OpenMMDBPath(mfile, config.Filename) ELSE reader
    /\ UNCHANGED <<mfile, cursor, calls, hreq, hres, varsB>>

\* &GeoIP{db: reader, ...}: the handler put together around an open reader
BuildGeoIP ==
    /\ hcfg.state = "idle" /\ reader.state = "open"
    /\ \E config \in ServeConfigsA :
          /\ config.Filename = MMDBPath
          /\ hcfg' = Plugin("GeoIP", "literal", config)
    /\ UNCHANGED <<hreq, hres, varsA, varsB>>

\* a.ServeHTTP(rw, req) of the IP2Location handler
ServeIP2Location ==
    /\ hcfg.state = "ready" /\ hcfg.kind = "IP2Location" /\ hreq.state = "idle"
    /\ \E req \in ServeRequests, bigalloc \in BOOLEAN :
          LET s == ServeHTTPB(hcfg, db, file, globals, req, bigalloc)
          IN  hreq' = req /\ q' = s.q /\ hres' = s.res
    /\ UNCHANGED <<hcfg, file, fx, globals, db, varsA>>

\* g.ServeHTTP(rw, req) of the GeoIP handler
ServeGeoIP ==
    /\ hcfg.state = "ready" /\ hcfg.kind = "GeoIP" /\ hreq.state = "idle"
    /\ \E req \in ServeRequests :
          LET s == ServeHTTPA(hcfg, reader, mfile, cursor, req)
          IN  /\ hreq' = req /\ hres' = s.res
              /\ cursor' = s.cur
              /\ calls' = [calls EXCEPT !["t1"] = s.call]
    /\ UNCHANGED <<hcfg, mfile, reader, varsB>>

NextS == NewIP2Location \/ NewGeoIP \/ BuildGeoIP \/ ServeIP2Location \/ ServeGeoIP

SpecServe == InitS /\ [][NextS]_vars

\* C15: OpenMMDB on a file that holds no metadata marker fails with 'metadata
\* marker not found', has closed the file it opened and returns no reader; no
\* LookupIP ever runs on what it returned
C15_NoMarkerOpenFails ==
    /\ [][(reader.state = "none" /\ reader'.state # "none"
              /\ MarkerOffsets(mfile) = {})
           => /\ reader'.state = "error"
              /\ reader'.err = "failed to read metadata"
              /\ reader'.cause = MetadataNotFound
              /\ reader'.fileClosed]_vars
    /\ [](reader.state = "error" => \A t \in Threads : calls[t].pc = "idle")
\* a file of 300000 bytes without a marker was refused
C15_Witness ==
    /\ MarkerOffsets(mfile) = {} /\ mfile.size = 300000
    /\ reader.state = "error" /\ reader.cause = MetadataNotFound
    /\ reader.fileClosed /\ \A t \in Threads : calls[t].pc = "idle"

(***************************************************************************)
(* Format B: a string that is no address                                   *)
(***************************************************************************)
\* C14: Get_all of a string that is neither an IPv4 nor an IPv6 literal
\* returns in its first step, before any pass of the search loop, with the
\* error 'Invalid IP address.' and the empty record; it reads neither the
\* index nor the range table: no window was fetched, no row visited and no read
\* failed, on a closed handle as on an open one
C14_InvalidAddress ==
    (db.state = "open" /\ q.pc # "idle" /\ q.lit.kind = "bad") =>
        /\ q.pc = "done"
        /\ q.status = "err" /\ q.err = "invalid_address"
        /\ q.x = EmptyRecord
        /\ q.iptype = 0 /\ q.ipindex = Zero32
        /\ q.low = Zero32 /\ q.high = Zero32 /\ q.mid = Zero32
        /\ q.failed = "none" /\ ~q.matched /\ ~q.exhausted
\* the string looked up in a database that has an IPv4 index
C14_Witness ==
    /\ QueryDone /\ q.lit = BadLit /\ q.err = "invalid_address"
    /\ db.meta.ipv4indexbaseaddr # Zero32

(***************************************************************************)
(* Properties of the handlers                                              *)
(***************************************************************************)
\* the places of the log where the next handler is called
NextCalls(log) == {i \in 1..Len(log) : log[i].op = "next"}

ErrorKey == CanonicalKey(IF hcfg.kind = "GeoIP" THEN ErrorHeaderA ELSE ErrorHeaderB)
\* the call set the error header, on the request or on the response
ErrorHeaderSet == \E i \in 1..Len(hres.log) : hres.log[i].name = ErrorKey
\* IP detection or the lookup of the call produced an error
ServeErrored == hres.err # "none" \/ hres.ip = NoIP \/ hres.lookup = "err"
\* a header mapping of the configuration carries the name of the error header
MappingNamedError ==
    \E m \in DOMAIN hcfg.headers :
        hcfg.headers[m] # "" /\ CanonicalKey(hcfg.headers[m]) = ErrorKey

\* C12 as stated: a call of ServeHTTP sets the error header (X-GEOIP-ERROR,
\* X-IP2LOCATION-ERROR for the older handler) exactly when IP detection or the
\* lookup produced an error and disableErrorHeader is false
C12_ErrorHeaderIffError ==
    hres.state = "served" =>
        (ErrorHeaderSet <=> (ServeErrored /\ ~hcfg.disableErrorHeader))
\* C12 narrowed: when no header mapping of the configuration is named as the
\* error header, a call of ServeHTTP sets the error header exactly when IP
\* detection or the lookup produced an error and disableErrorHeader is false
C12_ErrorHeaderIffErrorUnlessMapped ==
    (hres.state = "served" /\ ~MappingNamedError) =>
        (ErrorHeaderSet <=> (ServeErrored /\ ~hcfg.disableErrorHeader))
\* a lookup that failed under a configuration that keeps the error header
C12_Witness ==
    /\ hres.state = "served" /\ hres.lookup = "err"
    /\ ~hcfg.disableErrorHeader /\ ~MappingNamedError
    /\ ErrorHeaderSet

\* a header mapping of the configuration, not empty, carries the name
Configured(name) ==
    \E m \in DOMAIN hcfg.headers :
        hcfg.headers[m] # "" /\ CanonicalKey(hcfg.headers[m]) = name
\* the value written is that of a field that is not empty and not zero
FieldValueWritten(e) ==
    /\ e.msg = <<>>
    /\ e.value.v # <<>>
    /\ e.value.fmt # "text" => \E j \in 1..Len(e.value.v) : e.value.v[j] # 0

\* C13: after ServeHTTP every header the call set on the request or on the
\* response, the error header aside, bears the name of a non-empty header
\* mapping of the configuration and holds the non-empty, non-zero value of a
\* field of the record that was looked up
C13_OnlyConfiguredHeaders ==
    hres.state = "served" =>
        \A i \in 1..Len(hres.log) :
            (hres.log[i].op \in {"req", "rw"} /\ hres.log[i].name # ErrorKey) =>
                Configured(hres.log[i].name) /\ FieldValueWritten(hres.log[i])

\* what opening the database file named by the configuration comes to
OpenOutcome ==
    IF hcfg.kind = "IP2Location" THEN OpenDBPath(file, hcfg.config.Filename).state
    ELSE OpenMMDBPath(mfile, hcfg.config.Filename).state

\* C20: New returns an error and no handler whenever the filename is empty or
\* the database file cannot be opened, and the handler it returns otherwise
\* stands on a database that was opened
C20_NewFailsCleanly ==
    (hcfg.state # "idle" /\ hcfg.via = "New") =>
        /\ (hcfg.config.Filename = "" \/ OpenOutcome = "error") => hcfg.state = "error"
        /\ hcfg.state = "ready" =>
              /\ hcfg.config.Filename # "" /\ OpenOutcome = "open"
              /\ hcfg.kind = "IP2Location" => db.state = "open"
\* New refused a path that does not exist; New returned a handler
C20_Witness ==
    /\ hcfg.state = "error" /\ hcfg.via = "New"
    /\ hcfg.config.Filename = "nonexistent.bin"
    /\ hcfg.err = "error opening database file"

(***************************************************************************)
(* Format A: one caller, one lookup after another, and Close               *)
(***************************************************************************)
\* how many lookups the caller makes on a reader
MaxLookups == 3

\* the groups a data record is put together from, each a list of no entry or
\* of one entry of the record's map
CountryGroups ==
    {<<>>,
     << <<K_country, TMap(<< <<K_iso_code, TStr(<<85, 83>>)>> >>)>> >>,
     << <<K_country,
          TMap(<< <<K_iso_code, TStr(<<85, 83>>)>>,
                  <<K_names, TMap(<< <<LangEn, TStr(<<85, 83, 65>>)>> >>)>> >>)>> >>}
ContinentGroups ==
    {<<>>, << <<K_continent, TMap(<< <<K_code, TStr(<<78, 65>>)>> >>)>> >>}
PostalGroups ==
    {<<>>, << <<K_postal, TMap(<< <<K_code, TStr(<<49>>)>> >>)>> >>}
LocationGroups ==
    {<<>>,
     << <<K_location,
          TMap(<< <<K_latitude, TDouble(<<64, 66, 0, 0, 0, 0, 0, 0>>)>> >>)>> >>,
     << <<K_location,
          TMap(<< <<K_longitude, TDouble(<<192, 94, 128, 0, 0, 0, 0, 0>>)>>,
                  <<K_time_zone, TStr(<<85, 84, 67>>)>>,
                  <<K_accuracy_radius, TU16(<<0, 50>>)>> >>)>> >>}
TraitsGroups ==
    {<<>>,
     << <<K_traits,
          TMap(<< <<K_autonomous_system_number, TU32(<<0, 0, 1, 2>>)>> >>)>> >>,
     << <<K_traits,
          TMap(<< <<K_isp, TStr(<<105>>)>>, <<K_domain, TStr(<<100>>)>>,
                  <<K_user_type, TStr(<<117>>)>> >>)>> >>}
SubdivisionGroups ==
    {<<>>,
     << <<K_subdivisions,
          TArr(<< TMap(<< <<K_iso_code, TStr(<<67, 65>>)>> >>) >>)>> >>}
\* the records made of recognised keys only
KnownTrees ==
    {TMap(g[1] \o g[2] \o g[3] \o g[4] \o g[5] \o g[6]) :
        g \in CountryGroups \X ContinentGroups \X PostalGroups
               \X LocationGroups \X TraitsGroups \X SubdivisionGroups}

\* the type tags decodeValue has a case for, and tags it has none for: 1 in
\* the control byte, the others in the byte after it, up to 255 + 7
KnownTags == {2, 3, 4, 5, 6, 7, 8, 14}
UnknownTags == {1, 9, 10, 13, 15, 107, 258, 259, 262}
UnknownPayloads ==
    {<<>>, <<1, 2, 3>>, <<64, 66, 0, 0, 0, 0, 0, 0>>, [i \in 1..30 |-> i]}
\* a value of unknown tag as the value of a key of the record, inside a nested
\* map and as an element of an array, each followed by a value that is known
UnknownTrees ==
    UNION {{TMap(<< <<K_postal, TTag(n, p)>>,
                    <<K_country, TMap(<< <<K_iso_code, TStr(<<85, 83>>)>> >>)>> >>),
            TMap(<< <<K_location,
                      TMap(<< <<K_latitude, TTag(n, p)>>,
                              <<K_time_zone, TStr(<<85, 84, 67>>)>> >>)>> >>),
            TMap(<< <<K_subdivisions,
                      TArr(<< TTag(n, p),
                              TMap(<< <<K_iso_code, TStr(<<67, 65>>)>> >>) >>)>> >>)} :
           n \in UnknownTags, p \in UnknownPayloads}

\* values whose decoding fails: a double of size 3, a uint16 of size 1, a
\* uint32 of size 3, a map whose key is a uint16, and a map of two entries of
\* which the file holds one
FailValues ==
    {TTag(3, <<1, 2, 3>>), TTag(5, <<1>>), TTag(6, <<1, 2, 3>>),
     TRaw(SizeHead(7, 1) \o Encode(TU16(<<0, 1>>)) \o Encode(TStr(<<85>>))),
     TRaw(SizeHead(7, 2) \o Encode(TStr(K_code)) \o Encode(TStr(<<49>>)))}
\* such a value as the last value of the record, of a nested map and of an
\* array, each time after values that decode
FailTrees ==
    UNION {{TMap(<< <<K_country, TMap(<< <<K_iso_code, TStr(<<85, 83>>)>> >>)>>,
                    <<K_postal, v>> >>),
            TMap(<< <<K_country, TMap(<< <<K_iso_code, TStr(<<85, 83>>)>> >>)>>,
                    <<K_location,
                      TMap(<< <<K_time_zone, TStr(<<85, 84, 67>>)>>,
                              <<K_latitude, v>> >>)>> >>),
            TMap(<< <<K_country, TMap(<< <<K_iso_code, TStr(<<85, 83>>)>> >>)>>,
                    <<K_subdivisions,
                      TArr(<< TMap(<< <<K_iso_code, TStr(<<67, 65>>)>> >>), v >>)>> >>)} :
           v \in FailValues}

\* a tree of one node whose two records lead to the data record written at
\* DataAt, and the reader built around the file
TreeFile(tree) ==
    MFile(DataAt + Len(Encode(tree)),
          <<Piece(0, <<0, 0, 1 + DataAt, 0, 0, 1 + DataAt>>),
            Piece(DataAt, Encode(tree))>>)
TreeFixture(tree) ==
    [mfile |-> TreeFile(tree), reader |-> Reader(TRUE, Metadata(24, 1, 0)),
     ips |-> {IP0}, tree |-> tree]
\* the file of the handlers, looked up under an address that is found, one
\* that is not, and one whose record is cut short
ServeFixture ==
    [mfile |-> ServeFile, reader |-> Reader(TRUE, Metadata(24, 2, 0)),
     ips |-> {ParseIP(AddrOf("ip1")), ParseIP(AddrOf("ip2")), ParseIP(AddrOf("ip4"))},
     tree |-> TreeFull]
SeqFixtures ==
    {TreeFixture(tree) : tree \in KnownTrees \cup UnknownTrees \cup FailTrees}
    \cup {ServeFixture}

\* err := r.Close(): r.file.Close(), which fails on a file already closed
CloseResult(r) ==
    [r EXCEPT !.closed = TRUE,
              !.closeErr = IF r.closed THEN "file already closed" ELSE "none"]

InitQ ==
    /\ \E fixture \in SeqFixtures :
          /\ mfile = fixture.mfile
          /\ reader = fixture.reader
          /\ fx = fixture.tree
          /\ calls = [t \in Threads |->
                        [pc |-> "idle", ips |-> IF t = "t1" THEN fixture.ips ELSE {},
                         seen |-> <<>>]]
    /\ cursor = 0
    /\ hcfg = IdleH /\ hreq = IdleH /\ hres = IdleH
    /\ file = <<>> /\ globals = GlobalsUnset /\ db = NoDB /\ q = IdleQuery

\* the lookups that have returned, the one of the activation c included
SeenWith(c) ==
    IF c.pc = "done" THEN Append(c.seen, [ip |-> c.ip, result |-> c.result])
    ELSE c.seen
\* the caller calls r.LookupIP(ip), for the first time or after the return of
\* the call before
LookupNext(t) ==
    /\ reader.state = "open" /\ ~reader.closed
    /\ calls[t].pc \in {"idle", "done"}
    /\ Len(SeenWith(calls[t])) < MaxLookups
    /\ \E ip \in calls[t].ips :
          calls' = [calls EXCEPT ![t] =
                       LookupEntry(reader, ip)
                       @@ [ips |-> calls[t].ips, seen |-> SeenWith(calls[t])]]
    /\ UNCHANGED <<mfile, reader, cursor, varsB, varsH>>

\* the caller calls r.Close(), between two lookups
CloseMMDB ==
    /\ reader.state = "open"
    /\ \A t \in Threads : calls[t].pc \in {"idle", "done"}
    /\ reader' = CloseResult(reader)
    /\ UNCHANGED <<mfile, cursor, calls, varsB, varsH>>

NextQ ==
    \/ \E t \in Threads : LookupNext(t) \/ Walk(t) \/ SeekRecord(t) \/ SeekData(t) \/ Read(t)
    \/ CloseMMDB

SpecSeq == InitQ /\ [][NextQ]_vars

(***************************************************************************)
(* Format A: properties of the decoder, of repeated lookups and of Close   *)
(***************************************************************************)
\* the record a written tree stands for, read off the tree itself: the value
\* written under a key, taken when it has the type the field has
NoTree == [t |-> "none", b |-> <<>>, e |-> <<>>]
RECURSIVE TreeGetFrom(_, _, _)
TreeGetFrom(e, key, i) ==
    IF i = 0 THEN NoTree
    ELSE IF e[i][1] = key THEN e[i][2] ELSE TreeGetFrom(e, key, i - 1)
TreeGet(v, key) == IF v.t = "map" THEN TreeGetFrom(v.e, key, Len(v.e)) ELSE NoTree
TreeBytes(v, t) == IF v.t = t THEN v.b ELSE <<>>
TreeField(tree, group, key, t) == TreeBytes(TreeGet(TreeGet(tree, group), key), t)
TreeNamesOf(names) ==
    [l \in {names.e[i][1] : i \in {j \in 1..Len(names.e) : names.e[j][2].t = "string"}}
        |-> TreeGet(names, l).b]
TreeNames(v) == TreeNamesOf(TreeGet(v, K_names))
IsMapTree(v) == v.t = "map"
TreeSubdivisionsOf(maps) ==
    [i \in 1..Len(maps) |->
        [IsoCode |-> TreeBytes(TreeGet(maps[i], K_iso_code), "string"),
         Names |-> TreeNames(maps[i])]]
TreeSubdivisions(v) ==
    IF v.t = "array" THEN TreeSubdivisionsOf(SelectSeq(v.e, IsMapTree)) ELSE <<>>
ExpectedRecord(tree) ==
    [ CountryIsoCode |-> TreeField(tree, K_country, K_iso_code, "string"),
      CountryNames |-> TreeNames(TreeGet(tree, K_country)),
      ContinentCode |-> TreeField(tree, K_continent, K_code, "string"),
      ContinentNames |-> TreeNames(TreeGet(tree, K_continent)),
      CityNames |-> TreeNames(TreeGet(tree, K_city)),
      Subdivisions |-> TreeSubdivisions(TreeGet(tree, K_subdivisions)),
      PostalCode |-> TreeField(tree, K_postal, K_code, "string"),
      Latitude |-> TreeField(tree, K_location, K_latitude, "double"),
      Longitude |-> TreeField(tree, K_location, K_longitude, "double"),
      TimeZone |-> TreeField(tree, K_location, K_time_zone, "string"),
      AccuracyRadius |-> TreeField(tree, K_location, K_accuracy_radius, "uint16"),
      ISP |-> TreeField(tree, K_traits, K_isp, "string"),
      AutonomousSystemNumber |->
          TreeField(tree, K_traits, K_autonomous_system_number, "uint32"),
      AutonomousSystemOrganization |->
          TreeField(tree, K_traits, K_autonomous_system_organization, "string"),
      Domain |-> TreeField(tree, K_traits, K_domain, "string"),
      ConnectionType |-> TreeField(tree, K_traits, K_connection_type, "string"),
      UserType |-> TreeField(tree, K_traits, K_user_type, "string") ]

\* the lookup of the caller has returned the record the tree stands for, with
\* no error, having read the data record to its last byte and no further
DecodedAsWritten ==
    /\ calls["t1"].result.err = "none"
    /\ calls["t1"].result.record = ExpectedRecord(fx)
    /\ cursor = DataAt + Len(Encode(fx))
\* the caller's lookup has returned on a file that holds the one record fx
TreeDecoded == calls["t1"].pc = "done" /\ mfile = TreeFile(fx)

\* C16: a value whose type tag (the top 3 bits of the control byte, or the
\* next byte + 7 when they are 0) is none of 2, 3, 4, 5, 6, 7, 8, 14 is passed
\* over: the decoder consumes its size bytes, yields nothing for it and no
\* error, and goes on with the next value of the enclosing map or array, so
\* that the record is the one of the known values and the read position ends
\* at the end of the data record
C16_UnknownTagsSkipped ==
    (TreeDecoded /\ fx \in UnknownTrees) => DecodedAsWritten

\* C17: a data record that encodes a map of recognised keys decodes to the
\* record that has exactly the fields written, with the values written, and
\* every other field absent
C17_RoundTrip ==
    (TreeDecoded /\ fx \in KnownTrees) => DecodedAsWritten
\* {"country": {"iso_code": "US"}} decoded to country code "US" and nothing else
C17_Witness ==
    /\ TreeDecoded
    /\ fx = TMap(<< <<K_country, TMap(<< <<K_iso_code, TStr(<<85, 83>>)>> >>)>> >>)
    /\ calls["t1"].result.err = "none"
    /\ calls["t1"].result.record =
          [parseGeoIP2Data(MapV(<<>>)) EXCEPT !.CountryIsoCode = <<85, 83>>]

\* C18: a lookup that returns gives what every earlier lookup of the same
\* address on the reader gave, whatever was looked up in between
C18_LookupIdempotent ==
    calls["t1"].pc = "done" =>
        \A i \in 1..Len(calls["t1"].seen) :
            calls["t1"].seen[i].ip = calls["t1"].ip =>
                calls["t1"].seen[i].result = calls["t1"].result
\* the address that is found, looked up, then another address whose record is
\* cut short, then the first again with the same record
C18_Witness ==
    /\ calls["t1"].pc = "done" /\ Len(calls["t1"].seen) = 2
    /\ calls["t1"].seen[1].ip = calls["t1"].ip
    /\ calls["t1"].seen[2].ip # calls["t1"].ip
    /\ calls["t1"].seen[2].result.err = "failed to read data record"
    /\ calls["t1"].result.err = "none"
    /\ calls["t1"].result.record = ExpectedRecord(TreeFull)

\* C19: every call of Close on a reader, the first one and those on a reader
\* already closed, reports no error
C19_CloseIdempotent ==
    (reader.state = "open" /\ reader.closed) => reader.closeErr = "none"

C30_ConfiguredListRestricts ==
    (GetIPDone /\ hcfg.config.TrustedProxies # <<>>
     /\ \A i \in 1..Len(hcfg.config.TrustedProxies) :
           RemoteHost(hreq) \notin hcfg.config.TrustedProxies[i].ips)
        => ~isTrustedProxy(hcfg, hreq.RemoteAddr)

(***************************************************************************)
(* Format B: the search window, the row sizes and the row buffer           *)
(***************************************************************************)
\* a + b fits a uint32
SumFits32(a, b) == a[1] + b[1] + ((a[2] + b[2]) \div B16) < B16

\* C27: in every iteration of the binary search low <= mid <= high, low + high
\* does not exceed 2^32 - 1, and high = mid - 1 is taken only when mid > 0,
\* whatever the table holds and whatever window the search starts with.
C27_SearchIndicesNeverWrap ==
    [][(q.pc = "loop" /\ Le32(q.low, q.high) /\ q' # q)
          => /\ SumFits32(q.low, q.high)
             /\ Le32(q.low, q'.mid) /\ Le32(q'.mid, q.high)
             /\ (q'.pc = "loop" /\ q'.high # q.high) => q'.mid # Zero32]_vars

\* the column-count bytes a header may carry, whatever its type byte says
ColumnBytes == {0, 1, 2, 3, 60, 61, 63, 64, 65, 128, 255}
HeaderTypes == {1, 3}
\* files whose column count is not the one of their type
HeaderFixtures ==
    {[Desc(t, T4Spec, T6Spec, <<>>, <<>>) EXCEPT !.hdrcol = c] :
        t \in HeaderTypes, c \in ColumnBytes}
    \cup {Desc(1, T4Wide, T6Spec, <<<<0, 0>>, <<0, 1>>, <<2, 2>>>>,
                <<<<0, 1>>, <<2, 2>>>>),
          Desc(1, T4Wide, T6Spec, <<<<3, 1>>, <<2, 2>>, <<0, 0>>>>, <<>>)}
\* an IPv4 index base address 8 below 2^32
HighBase == <<FFFF, FFFF - 7>>
\* the file f with the IPv4 index base address of its header replaced
WithIndexBase(f, base) == SubSeq(f, 1, 21) \o LE32(base) \o SubSeq(f, 26, Len(f))
InitHeader ==
    /\ IdleA
    /\ fx \in HeaderFixtures
    /\ file \in {BuildFile(fx)}
                 \cup (IF fx.idx4 # <<>> THEN {WithIndexBase(BuildFile(fx), HighBase)}
                       ELSE {})
    /\ globals = GlobalsUnset
    /\ db = NoDB
    /\ q = IdleQuery
    /\ hcfg = IdleH /\ hreq = IdleH /\ hres = IdleH
SpecHeader == InitHeader /\ [][NextB]_vars

\* C22: for every column count c from 1 to 255 in the header, the handle holds
\* the IPv4 row size 4 * c and the IPv6 row size 16 + 4 * (c - 1).
C22_RowSizes ==
    (db.state = "open" /\ db.meta.databasecolumn >= 1) =>
        /\ db.meta.ipv4columnsize = 4 * db.meta.databasecolumn
        /\ db.meta.ipv6columnsize = 16 + 4 * (db.meta.databasecolumn - 1)

\* C28: for every handle OpenDB returns and every matched row, the length of
\* the row buffer, the row size less the 4 or 16 bytes of ip_from, does not
\* wrap, and every enabled field lies inside the buffer.
RowSizeOf(d, iptype) ==
    IF iptype = 4 THEN d.meta.ipv4columnsize ELSE d.meta.ipv6columnsize
FirstColOf(iptype) == IF iptype = 6 THEN 16 ELSE 4
\* the row at qq.mid holds the key of the query
MatchedRow(d, f, qq) ==
    LET rowoffset == Add32(IF qq.iptype = 4 THEN d.meta.ipv4databaseaddr
                           ELSE d.meta.ipv6databaseaddr,
                           Mul32(qq.mid, RowSizeOf(d, qq.iptype)))
        rowoffset2 == Add32(rowoffset, N32(RowSizeOf(d, qq.iptype)))
        rfrom == IF qq.iptype = 4 THEN readuint32(f, d.closed, rowoffset)
                 ELSE readuint128(f, d.closed, rowoffset)
        rto == IF qq.iptype = 4 THEN readuint32(f, d.closed, rowoffset2)
               ELSE readuint128(f, d.closed, rowoffset2)
    IN  /\ rfrom.ok /\ rto.ok
        /\ BigCmp(qq.ipno, IF qq.iptype = 4 THEN BigOf32(rfrom.val) ELSE rfrom.val) >= 0
        /\ BigCmp(qq.ipno, IF qq.iptype = 4 THEN BigOf32(rto.val) ELSE rto.val) < 0
C28_RowDecodingInsideBuffer ==
    (QueryDone /\ q.iptype \in {4, 6} /\ ~q.exhausted /\ MatchedRow(db, file, q))
        => /\ RowSizeOf(db, q.iptype) >= FirstColOf(q.iptype)
           /\ \A col \in Columns :
                 db.enabled[col] =>
                    db.offset[col] + 4
                       <= RowSizeOf(db, q.iptype) - FirstColOf(q.iptype)

(***************************************************************************)
(* Format B: the index table                                               *)
(***************************************************************************)
IndexBaseOf(d, iptype) ==
    IF iptype = 4 THEN d.meta.ipv4indexbaseaddr ELSE d.meta.ipv6indexbaseaddr
RowCountOf(d, iptype) ==
    IF iptype = 4 THEN d.meta.ipv4databasecount ELSE d.meta.ipv6databasecount
\* key >> 16 of an IPv4 key, key >> 112 of an IPv6 key
KeyTop(qq) == IF qq.iptype = 4 THEN qq.ipnum[7] ELSE qq.ipnum[1]
\* the 32-bit value the file holds at address a (addresses count from 1)
Stored32(f, a) == <<f[a + 3] * B8 + f[a + 2], f[a + 1] * B8 + f[a]>>

\* base + 8 * top with the carry out of 32 bits kept in the high limb
IndexSum(base, top) ==
    <<base[1] + ((base[2] + 8 * top) \div B16), (base[2] + 8 * top) % B16>>
\* the start of a search: the step from the call of query to its loop or return
SearchStarts ==
    /\ db.state = "open" /\ db' = db /\ q.pc \in {"idle", "done"}
    /\ q'.pc # "idle" /\ q'.iptype \in {4, 6}
\* what C23 says of the state the search starts in
IndexUsed(d, f, qq) ==
    /\ (IndexBaseOf(d, qq.iptype) # Zero32) =>
          /\ qq.ipindex = IndexSum(IndexBaseOf(d, qq.iptype), KeyTop(qq))
          /\ (qq.pc = "loop") =>
                /\ qq.low = Stored32(f, Offset32(qq.ipindex))
                /\ qq.high = Stored32(f, Offset32(qq.ipindex) + 4)
    /\ (IndexBaseOf(d, qq.iptype) = Zero32) =>
          /\ qq.pc = "loop" /\ qq.ipindex = Zero32
          /\ qq.low = Zero32
          /\ qq.high = RowCountOf(d, qq.iptype)

GlobalNames ==
    <<"max_ipv6_range", "from_6to4", "to_6to4", "from_teredo", "to_teredo">>
\* the first 19 decimal digits of each value, the first word SetString stores
\* into the digits of the big.Int while it scans the string
FirstWord ==
    [max_ipv6_range |-> <<12089, 16921, 9348, 18106>>,
     from_6to4 |-> <<15115, 17176, 38812, 12990>>,
     to_6to4 |-> <<15117, 6997, 11415, 40937>>,
     from_teredo |-> <<15113, 27356, 672, 50580>>,
     to_teredo |-> <<15113, 27357, 56029, 23183>>]
\* what a reader without synchronisation finds in a value SetString is
\* writing: the high word still in place, the low word already overwritten
Torn(name) == SubSeq(GlobalsSet[name], 1, 4) \o FirstWord[name]

RaceFixtures ==
    {Desc(1, T4Spec, T6Spec, <<>>, <<>>), Desc(3, T4Spec, T6Spec, <<>>, <<>>)}
InitRace ==
    /\ IdleA
    /\ fx \in RaceFixtures
    /\ file = BuildFile(fx)
    /\ globals = GlobalsUnset
    /\ db = NoDB
    /\ q = IdleQuery
    /\ hcfg = IdleH /\ hreq = IdleH /\ hres = IdleH

\* goroutine t2 calls OpenDB on another file
OpenOther ==
    /\ db.state = "open"
    /\ calls["t2"].pc = "idle"
    /\ calls' = [calls EXCEPT !["t2"] = [pc |-> "setstring", k |-> 1, writing |-> FALSE]]
    /\ UNCHANGED <<file, fx, globals, db, q, hcfg, hreq, hres, mfile, reader, cursor>>
\* SetString of the k-th value has begun to store digits
SetStringWrite ==
    /\ calls["t2"].pc = "setstring" /\ ~calls["t2"].writing
    /\ globals' = [globals EXCEPT ![GlobalNames[calls["t2"].k]] =
                                      Torn(GlobalNames[calls["t2"].k])]
    /\ calls' = [calls EXCEPT !["t2"].writing = TRUE]
    /\ UNCHANGED <<file, fx, db, q, hcfg, hreq, hres, mfile, reader, cursor>>
\* SetString of the k-th value returns; after the fifth, OpenDB goes on to
\* open its own file and returns a handle that the lookups here do not use
SetStringReturn ==
    /\ calls["t2"].pc = "setstring" /\ calls["t2"].writing
    /\ globals' = [globals EXCEPT ![GlobalNames[calls["t2"].k]] =
                                      GlobalsSet[GlobalNames[calls["t2"].k]]]
    /\ calls' = [calls EXCEPT !["t2"] =
                    IF calls["t2"].k = Len(GlobalNames) THEN IdleCall
                    ELSE [pc |-> "setstring", k |-> calls["t2"].k + 1,
                          writing |-> FALSE]]
    /\ UNCHANGED <<file, fx, db, q, hcfg, hreq, hres, mfile, reader, cursor>>

NextRace ==
    \/ OpenDB \/ QueryStart \/ QueryLoop \/ CloseDB
    \/ OpenOther \/ SetStringWrite \/ SetStringReturn
SpecRace == InitRace /\ [][NextRace]_vars

\* C24: once a handle is open nothing a lookup reads is written: no step of
\* query changes the handle, and no step of any operation, a later or
\* concurrent OpenDB included, changes the package-level values.
C24_NothingWrittenAfterOpen ==
    [][(db.state = "open") =>
          /\ globals' = globals
          /\ (q' # q) => db' = db]_vars

(***************************************************************************)
(* Lookups on a handle that was closed: a DB of Format B, or an MMDBReader *)
(***************************************************************************)
\* a reader whose tree has no node: every lookup goes to the data at once
EmptyTreeFixture ==
    [mfile |-> TreeFile(TMap(<<>>)), reader |-> Reader(TRUE, Metadata(24, 0, DataAt)),
     ips |-> {IP0}, tree |-> TMap(<<>>)]
ClosedFixtures ==
    {TreeFixture(TMap(<< <<K_country, TMap(<< <<K_iso_code, TStr(<<85, 83>>)>> >>)>> >>)),
     ServeFixture, EmptyTreeFixture}
\* one handle: a database file of Format B still to be opened, or a reader
InitClosed ==
    \/ InitB
    \/ /\ \E fixture \in ClosedFixtures :
              /\ mfile = fixture.mfile
              /\ reader = fixture.reader
              /\ fx = fixture.tree
              /\ calls = [t \in Threads |->
                            [pc |-> "idle", ips |-> IF t = "t1" THEN fixture.ips ELSE {},
                             seen |-> <<>>]]
       /\ cursor = 0
       /\ hcfg = IdleH /\ hreq = IdleH /\ hres = IdleH
       /\ file = <<>> /\ globals = GlobalsUnset /\ db = NoDB /\ q = IdleQuery

\* the caller calls r.LookupIP(ip) on the reader it has closed
LookupAfterClose(t) ==
    /\ reader.state = "open" /\ reader.closed
    /\ calls[t].pc \in {"idle", "done"}
    /\ Len(SeenWith(calls[t])) < MaxLookups
    /\ \E ip \in calls[t].ips :
          calls' = [calls EXCEPT ![t] =
                       LookupEntry(reader, ip)
                       @@ [ips |-> calls[t].ips, seen |-> SeenWith(calls[t])]]
    /\ UNCHANGED <<mfile, reader, cursor, varsB, varsH>>

NextClosed ==
    \/ OpenDB \/ QueryStart \/ QueryLoop \/ CloseDB
    \/ \E t \in Threads : LookupNext(t) \/ LookupAfterClose(t)
    \/ \E t \in Threads : Walk(t) \/ SeekRecord(t) \/ SeekData(t) \/ Read(t)
    \/ CloseMMDB
SpecClosed == InitClosed /\ [][NextClosed]_vars

\* C25: once Close was called on a handle, every lookup made on it later
\* returns an error and no record, for every address, and the handle stays
\* closed whatever is called on it.
C25_ClosedIsTerminal ==
    [][/\ (db.state = "open" /\ db.closed /\ q'.pc = "done" /\ q' # q)
            => (q'.status = "err" /\ q'.x = EmptyRecord)
       /\ \A t \in Threads :
            (reader.state = "open" /\ reader.closed
                /\ calls'[t].pc = "done" /\ calls'[t] # calls[t])
              => /\ calls'[t].result.err # "none"
                 /\ calls'[t].result.record = NoRecord
       /\ (db.state = "open" /\ db.closed) => (db'.state = "open" /\ db'.closed)
       /\ (reader.state = "open" /\ reader.closed)
            => (reader'.state = "open" /\ reader'.closed)]_vars

\* the address whose lookup gave a record was looked up again after Close,
\* and the lookup ended with 'IP not found in database'
C25_Witness ==
    /\ reader.state = "open" /\ reader.closed
    /\ calls["t1"].pc = "done" /\ Len(calls["t1"].seen) = 1
    /\ calls["t1"].seen[1].ip = calls["t1"].ip
    /\ calls["t1"].seen[1].result.err = "none"
    /\ calls["t1"].result = NotFound

====
